---- MODULE Spec2Model ----
(***************************************************************************)
(* isolate: the sandbox launcher's provisioning pipeline and its teardown. *)
(*                                                                         *)
(* The repository holds two listings of the FreeBSD back end:              *)
(*   "orig" : src/src/freebsd.c (the file the Makefile compiles)           *)
(*   "plan" : the listing appended to src/DEVELOPMENT_PLAN.md (lines       *)
(*            715-1275), which adds the workspace mount, the file-rule     *)
(*            mounts and the host-side uid/gid lookup.                     *)
(* Both are driven by main() of src/src/main.c.  The variable `variant'    *)
(* fixes which listing a behaviour executes.                               *)
(*                                                                         *)
(* Host model.  Spec follows one invocation (one pid), so there is one     *)
(* ephemeral name app-<pid>, one jail name isolate-<pid> and one root      *)
(* directory /tmp/isolate-isolate-<pid>.  Mount targets are written        *)
(* relative to that root.  The mount table is a stack: umount removes the  *)
(* topmost mount of a target.                                              *)
(*                                                                         *)
(* SpecNames takes two invocations alive at the same time and computes the *)
(* names each derives from its pid, character by character.                *)
(***************************************************************************)
EXTENDS Integers, Sequences, FiniteSets, TLC

\* ------------------------------------------------------------------ bounds
MaxFileRules == 2
\* non-fatal failures (warnings) one invocation may meet
MaxWarnings == 1
\* env lines of a policy document
MaxEnvRules == 1
\* largest pid of the two invocations alive at the same time
MaxPid == 12
\* lines of a short policy document
MaxLines == 2
\* entries of one kind beyond what its array holds
MaxExcess == 2
\* hints of one detection result
MaxHints == 2

\* --------------------------------------------------------------- constants
NoJail == -1
RootUid == 0
\* values the host hands out: the jid of the created jail, the uid of an
\* unprivileged caller, the ids of the two principals
Ids == [jid |-> 1, caller |-> 500, svc |-> 600, app |-> 700]
R_OK == "R"
W_OK == "W"
X_OK == "X"

EphemeralName == "app-pid"
JailName == "isolate-pid"
RootPath == "/tmp/isolate-isolate-pid"

Variants == {"orig", "plan"}

\* Principals the host may know: the synthesized ephemeral name and one
\* named service account.  "ghost" is a name no host ever has.
PrincipalId(n) == IF n = "svc" THEN Ids.svc ELSE IF n = EphemeralName THEN Ids.app ELSE 0

\* pw_gid, pw_dir and pw_shell of the host's entry for n
PrincipalGid(n) == IF PrincipalId(n) = 0 THEN 0 ELSE PrincipalId(n) + 1
PwDir(n) == IF n = EphemeralName THEN "/tmp" ELSE "/home/svc"
PwShell(n) == "/usr/sbin/nologin"

\* the environment the launcher is started with
TargetBinary == "./app"
CallerEnv == ("PATH" :> "/sbin:/bin") @@ ("HOME" :> "/root") @@ ("USER" :> "root")

\* setenv(name, value, 1)
setenv(e, n, v) == [x \in (DOMAIN e) \cup {n} |-> IF x = n THEN v ELSE e[x]]

\* Host paths a file rule may name, and what stat() reports for them.
HostPathKind(p) ==
    CASE p = "/lib" -> "dir"
      [] p = "/data" -> "dir"
      [] p = "/ws" -> "dir"
      [] p = "/etc/hosts" -> "file"
      [] OTHER -> "missing"

HostDirs == {"/lib", "/data", "/ws"}

RuleChoices ==
    { [path |-> "/lib", permissions |-> {R_OK}],
      [path |-> "/data", permissions |-> {R_OK, W_OK}],
      [path |-> "/data", permissions |-> {W_OK}],
      [path |-> "/etc/hosts", permissions |-> {R_OK}],
      [path |-> "/nope", permissions |-> {R_OK}] }

SeqsUpTo(S, n) == UNION { [1..k -> S] : k \in 0..n }

LimitChoices ==
    { [memory_bytes |-> 0, max_processes |-> 0, max_files |-> 0, max_cpu_percent |-> 0],
      [memory_bytes |-> 4096, max_processes |-> 5, max_files |-> 256, max_cpu_percent |-> 0],
      [memory_bytes |-> 0, max_processes |-> 0, max_files |-> 0, max_cpu_percent |-> 50] }

EnvRuleChoices ==
    { [name |-> "FOO", value |-> "1"],
      [name |-> "HOME", value |-> "/data"] }

NetworkRuleChoices ==
    { <<>>, <<[protocol |-> "tcp", address |-> "127.0.0.1", port |-> 80, direction |-> 1]>> }

NoLimits == [memory_bytes |-> 0, max_processes |-> 0, max_files |-> 0, max_cpu_percent |-> 0]

\* struct capabilities (create_user is the operator below).  The policies a
\* run may load: every combination of principal, workspace, file rules and
\* limits with the other fields at their defaults, and every combination of
\* principal, default-deny flags, env_clear, env rules and network rules
\* with no workspace, file rule or limit.
Policies ==
    [ username : {"auto", "svc", "ghost"},
      workspace_path : {"", "/ws"},
      files : SeqsUpTo(RuleChoices, MaxFileRules),
      limits : LimitChoices,
      network : {<<>>}, network_default_deny : {FALSE}, fs_default_deny : {FALSE},
      env_vars : {<<>>}, env_clear : {FALSE} ]
    \cup
    [ username : {"auto", "svc", "ghost"},
      workspace_path : {""},
      files : {<<>>},
      limits : {NoLimits},
      network : NetworkRuleChoices, network_default_deny : BOOLEAN,
      fs_default_deny : BOOLEAN,
      env_vars : SeqsUpTo(EnvRuleChoices, MaxEnvRules), env_clear : BOOLEAN ]

create_user(c) == c.username = "auto"

\* init_default_capabilities with env_clear set
init_default_capabilities_env_clear ==
    [ username |-> "auto", workspace_path |-> "", files |-> <<>>,
      limits |-> [memory_bytes |-> 0, max_processes |-> 0, max_files |-> 0,
                  max_cpu_percent |-> 0],
      network |-> <<>>, network_default_deny |-> FALSE, fs_default_deny |-> FALSE,
      env_vars |-> <<>>, env_clear |-> TRUE ]

\* init_default_capabilities: memset 0, then username "auto", create_user 1
\* and the three flags 0
init_default_capabilities ==
    [ username |-> "auto", workspace_path |-> "", files |-> <<>>,
      limits |-> [memory_bytes |-> 0, max_processes |-> 0, max_files |-> 0,
                  max_cpu_percent |-> 0],
      network |-> <<>>, network_default_deny |-> FALSE, fs_default_deny |-> FALSE,
      env_vars |-> <<>>, env_clear |-> FALSE ]

VARIABLES
    variant,    \* which listing of the back end runs
    dry_run,    \* main: -n given
    caps,       \* main: struct capabilities after load_capabilities
    host,       \* the host: principals, root directory, mount table, jails, rctl rules, files
    rec,        \* the back end's statics: created_jail_id, jail_root_path, ephemeral_username
    proc,       \* the process: attached to the jail, uid, gid, atexit handler registered
    target,     \* freebsd_create_isolation: target_uid/target_gid resolved on the host
    pc,         \* position in main / freebsd_create_isolation
    fileIdx,    \* setup_filesystem_isolation: loop index i over caps->files
    warnings,   \* number of non-fatal failures met so far
    exitCode,   \* status the launcher's process ends with (-1: still running)
    failStep,   \* the pipeline step whose failure made freebsd_create_isolation return
    rollbacks,  \* number of calls of the cleanup function
    trace,      \* history: acquisitions, releases and steps, in order
    pre,        \* history: the host as it was before provisioning started
    verbose,    \* main: -v given
    loaded,     \* main: what load_capabilities returned, and whether main warned
    env,        \* the process environment (environ)
    inv,        \* two invocations alive at the same time: pid and derived names
    parser      \* load_capabilities: the document, the line counter, the policy built so far

vars == <<variant, dry_run, caps, host, rec, proc, target, pc, fileIdx, warnings, exitCode,
          failStep, rollbacks, trace, pre, verbose, loaded, env, inv, parser>>

\* ------------------------------------------------------------ host helpers
Acq(k, i) == [op |-> "acq", kind |-> k, id |-> i]
Rel(k, i) == [op |-> "rel", kind |-> k, id |-> i]
Step(k) == [op |-> "step", kind |-> k, id |-> ""]

Mount(t, s, o) == [target |-> t, src |-> s, opts |-> o]

IsMounted(h, t) == \E i \in 1..Len(h.mounts) : h.mounts[i].target = t

\* index of the topmost mount of target t (0 when none)
TopIndex(ms, t) ==
    LET I == { i \in 1..Len(ms) : ms[i].target = t }
    IN IF I = {} THEN 0 ELSE CHOOSE i \in I : \A j \in I : j <= i

RemoveAt(s, i) == SubSeq(s, 1, i - 1) \o SubSeq(s, i + 1, Len(s))

\* The launcher runs its shell commands and jail_remove against the host only
\* while it has not attached to the jail and is still super-user: after
\* jail_attach the root is the jail root (no /bin/sh in it, host paths do not
\* resolve) and the jail is not a child of the caller's prison.
HostView(p) == ~p.attached /\ p.uid = RootUid

\* rm -rf of the root directory, run on the host.  It descends into whatever
\* is still mounted beneath the root: a read-write nullfs mount exposes the
\* host directory, whose entries are unlinked; a read-only mount and devfs
\* refuse.  A mount point that is still mounted cannot be removed (EBUSY), so
\* the root directory survives when any mount is left beneath it.
rm_rf(h) ==
    IF ~h.root THEN h
    ELSE LET ms == h.mounts
             Exposed == { ms[i].src : i \in { j \in 1..Len(ms) :
                              /\ ms[j].opts = "rw"
                              /\ j = TopIndex(ms, ms[j].target) } }
         IN [h EXCEPT !.files = [d \in HostDirs |-> IF d \in Exposed THEN {} ELSE h.files[d]],
                      !.root = (ms # <<>>)]

\* umount <root>/<t>, run on the host: removes the topmost mount of t, if any.
umount(w, t) ==
    LET i == TopIndex(w.host.mounts, t)
    IN IF i = 0 THEN w
       ELSE [w EXCEPT !.host.mounts = RemoveAt(w.host.mounts, i),
                      !.trace = Append(w.trace, Rel("mount", t))]

\* the mount points cleanup unmounts, in the order of its umount commands
FixedUmounts == <<"/dev", "/bin", "/lib", "/libexec", "/usr/lib", "/usr/local/lib">>

RECURSIVE umount_all(_, _, _)
umount_all(w, ts, i) ==
    IF i > Len(ts) THEN w ELSE umount_all(umount(w, ts[i]), ts, i + 1)

\* pw userdel -n <name>, best effort
cleanup_ephemeral_user(w, hv, name) ==
    IF hv /\ name \in w.host.users
    THEN [w EXCEPT !.host.users = w.host.users \ {name},
                   !.trace = Append(w.trace, Rel("user", name))]
    ELSE w

\* jail_remove(created_jail_id)
jail_remove(w, hv) ==
    IF hv /\ JailName \in w.host.jails
    THEN [w EXCEPT !.host.jails = w.host.jails \ {JailName},
                   !.trace = Append(w.trace, Rel("jail", JailName))]
    ELSE w

\* the umount commands and the rm -rf of cleanup's second block
cleanup_filesystem(w, hv) ==
    IF ~hv THEN w
    ELSE LET u == umount_all(w, FixedUmounts, 1)
             h == rm_rf(u.host)
         IN [u EXCEPT !.host = h,
                      !.trace = IF u.host.root /\ ~h.root
                                THEN Append(u.trace, Rel("root", RootPath))
                                ELSE u.trace]

\* cleanup_jail that forgets to reset jail_root_path
cleanup_jail_keeps_root_path(w, hv) ==
    LET w1 == IF w.rec.created_jail_id >= 0
              THEN [jail_remove(w, hv) EXCEPT !.rec.created_jail_id = NoJail]
              ELSE w
        w2 == IF w1.rec.jail_root_path # ""
              THEN cleanup_filesystem(w1, hv)
              ELSE w1
        w3 == IF w2.rec.ephemeral_username # ""
              THEN [cleanup_ephemeral_user(w2, hv, w2.rec.ephemeral_username)
                        EXCEPT !.rec.ephemeral_username = ""]
              ELSE w2
    IN w3

\* cleanup_jail that deletes the ephemeral principal before anything else
cleanup_jail_user_first(w, hv) ==
    LET w1 == IF w.rec.ephemeral_username # ""
              THEN [cleanup_ephemeral_user(w, hv, w.rec.ephemeral_username)
                        EXCEPT !.rec.ephemeral_username = ""]
              ELSE w
        w2 == IF w1.rec.created_jail_id >= 0
              THEN [jail_remove(w1, hv) EXCEPT !.rec.created_jail_id = NoJail]
              ELSE w1
        w3 == IF w2.rec.jail_root_path # ""
              THEN [cleanup_filesystem(w2, hv) EXCEPT !.rec.jail_root_path = ""]
              ELSE w2
    IN w3

\* cleanup_jail() of freebsd.c, freebsd_cleanup_isolation() of the plan
\* listing (the two bodies are the same).  w is the world it acts on: the
\* host, the statics and the history; hv tells whether its commands reach
\* the host.
cleanup_jail(w, hv) ==
    LET w1 == IF w.rec.created_jail_id >= 0
              THEN [jail_remove(w, hv) EXCEPT !.rec.created_jail_id = NoJail]
              ELSE w
        w2 == IF w1.rec.jail_root_path # ""
              THEN [cleanup_filesystem(w1, hv) EXCEPT !.rec.jail_root_path = ""]
              ELSE w1
        w3 == IF w2.rec.ephemeral_username # ""
              THEN [cleanup_ephemeral_user(w2, hv, w2.rec.ephemeral_username)
                        EXCEPT !.rec.ephemeral_username = ""]
              ELSE w2
    IN w3

World == [host |-> host, rec |-> rec, trace |-> trace]

RecEmpty(r) == r.created_jail_id = NoJail /\ r.jail_root_path = "" /\ r.ephemeral_username = ""

\* ------------------------------------------------------------------- Init
FileNames == {"pre", "out"}

Init ==
    /\ variant \in Variants
    /\ dry_run \in BOOLEAN
    /\ caps = init_default_capabilities
    /\ \E pool \in {{"svc"}, {"svc", EphemeralName}} :
          host = [users |-> pool, root |-> FALSE, mounts |-> <<>>, jails |-> {},
                  rctl |-> {}, files |-> [d \in HostDirs |-> {"pre"}]]
    /\ rec = [created_jail_id |-> NoJail, jail_root_path |-> "", ephemeral_username |-> ""]
    /\ \E u \in {RootUid, Ids.caller} :
          proc = [attached |-> FALSE, uid |-> u, gid |-> u, atexit |-> FALSE]
    /\ target = [uid |-> 0, gid |-> 0, username |-> ""]
    /\ pc = "load_capabilities"
    /\ fileIdx = 1
    /\ warnings = 0
    /\ exitCode = -1
    /\ failStep = ""
    /\ rollbacks = 0
    /\ trace = <<>>
    /\ pre = host
    /\ verbose \in BOOLEAN
    /\ loaded = [ret |-> "", warned |-> FALSE]
    /\ env = CallerEnv
    /\ inv = <<>>
    /\ parser = <<>>

\* --------------------------------------------------------------- main, part 1
\* main(): load_capabilities, falling back to the default policy when the
\* document cannot be read.
\* load_capabilities returns 0 with the parsed policy, or errno when the
\* document cannot be opened; main then warns (if verbose or the error is not
\* ENOENT) and falls back to init_default_capabilities.
main_load_capabilities ==
    /\ pc = "load_capabilities"
    /\ \E ret \in {"ok", "ENOENT", "EACCES"} :
         /\ IF ret = "ok"
            THEN \E c \in Policies :
                   \* struct capabilities of freebsd.c's header has no workspace_path
                   /\ variant = "orig" => c.workspace_path = ""
                   /\ caps' = c
            ELSE caps' = init_default_capabilities
         /\ loaded' = [ret |-> ret,
                       warned |-> ret # "ok" /\ (verbose \/ ret # "ENOENT")]
    /\ pc' = "dry_run_check"
    /\ UNCHANGED <<parser, inv, verbose, env, variant, dry_run, host, rec, proc, target, fileIdx, warnings, exitCode,
                   failStep, rollbacks, trace, pre>>

\* main() that ignores -n
main_dry_run_flag_ignored ==
    /\ pc = "dry_run_check"
    /\ pc' = "privilege_check" /\ UNCHANGED exitCode
    /\ UNCHANGED <<parser, inv, verbose, loaded, env, variant, dry_run, caps, host, rec, proc, target,
                   fileIdx, warnings, failStep, rollbacks, trace, pre>>

\* main(): if (dry_run) { ...; return 0; }
main_dry_run ==
    /\ pc = "dry_run_check"
    /\ IF dry_run
       THEN pc' = "done" /\ exitCode' = 0
       ELSE pc' = "privilege_check" /\ UNCHANGED exitCode
    /\ UNCHANGED <<parser, inv, verbose, loaded, env, variant, dry_run, caps, host, rec, proc, target, fileIdx, warnings,
                   failStep, rollbacks, trace, pre>>

\* main() without the geteuid() test
main_privilege_check_skipped ==
    /\ pc = "privilege_check"
    /\ pc' = "resolve_principal"
    /\ env' = setenv(env, "ISOLATE_TARGET_BINARY", TargetBinary)
    /\ UNCHANGED <<parser, inv, verbose, loaded, variant, dry_run, caps, host, rec, proc, target, fileIdx, warnings,
                   exitCode, failStep, rollbacks, trace, pre>>

\* main(): if (geteuid() != 0) { ...; return 1; }, then
\* setenv("ISOLATE_TARGET_BINARY", target_binary, 1)
main_privilege_check ==
    /\ pc = "privilege_check"
    /\ IF proc.uid # RootUid
       THEN pc' = "done" /\ exitCode' = 1 /\ UNCHANGED env
       ELSE /\ pc' = "resolve_principal" /\ UNCHANGED exitCode
            /\ env' = setenv(env, "ISOLATE_TARGET_BINARY", TargetBinary)
    /\ UNCHANGED <<parser, inv, verbose, loaded, variant, dry_run, caps, host, rec, proc, target, fileIdx, warnings,
                   failStep, rollbacks, trace, pre>>


\* ------------------------------------------------- freebsd_create_isolation
\* the pipeline goes on with world w at position next
Continue(w, next) ==
    /\ host' = w.host /\ rec' = w.rec /\ trace' = w.trace
    /\ pc' = next
    /\ UNCHANGED <<rollbacks, failStep, exitCode>>

\* "return ret;" without cleanup, then main's "return 1;"
ReturnError(w, step) ==
    /\ host' = w.host /\ rec' = w.rec /\ trace' = w.trace
    /\ failStep' = step /\ pc' = "done" /\ exitCode' = 1
    /\ UNCHANGED rollbacks

\* "cleanup_jail(); return ret;" (plan: freebsd_cleanup_isolation), then
\* main's "return 1;".  hv: whether the cleanup commands reach the host.
CleanupAndReturn(w, hv, step) ==
    LET c == cleanup_jail(w, hv)
    IN /\ host' = c.host /\ rec' = c.rec /\ trace' = c.trace
       /\ rollbacks' = rollbacks + 1
       /\ failStep' = step /\ pc' = "done" /\ exitCode' = 1

\* create_ephemeral_user(username): ok tells whether "pw useradd" succeeds
\* and the new user is then found.  Returns the world and the return value.
create_ephemeral_user(w, username, ok) ==
    IF username \in w.host.users
    THEN [w |-> w, ret |-> 0]
    ELSE IF ok
         THEN [w |-> [w EXCEPT !.host.users = w.host.users \cup {username},
                               !.trace = Append(w.trace, Acq("user", username))],
               ret |-> 0]
         ELSE [w |-> w, ret |-> -1]

\* user: auto.  Both listings; the plan listing also captures uid and gid.
resolve_principal_auto ==
    /\ pc = "resolve_principal"
    /\ create_user(caps) /\ caps.username = "auto"
    /\ \E ok \in BOOLEAN :
         LET w0 == [World EXCEPT !.rec.ephemeral_username = EphemeralName]
             r == create_ephemeral_user(w0, EphemeralName, ok)
         IN IF r.ret # 0
            THEN ReturnError(r.w, "principal") /\ UNCHANGED target
            ELSE /\ Continue(r.w, "create_jail_filesystem")
                 /\ target' = IF variant = "plan"
                              THEN [uid |-> PrincipalId(EphemeralName),
                                    gid |-> PrincipalGid(EphemeralName),
                                    username |-> EphemeralName]
                              ELSE [target EXCEPT !.username = EphemeralName]
    /\ UNCHANGED <<parser, inv, verbose, loaded, env, variant, dry_run, caps, proc, fileIdx, warnings, pre>>

\* user: <name>, plan listing: getpwnam on the host before anything is created
resolve_principal_named_plan ==
    /\ pc = "resolve_principal" /\ variant = "plan"
    /\ ~(create_user(caps) /\ caps.username = "auto")
    /\ IF caps.username \notin host.users
       THEN ReturnError(World, "principal") /\ UNCHANGED target
       ELSE /\ Continue(World, "create_jail_filesystem")
            /\ target' = [uid |-> PrincipalId(caps.username),
                          gid |-> PrincipalGid(caps.username),
                          username |-> caps.username]
    /\ UNCHANGED <<parser, inv, verbose, loaded, env, variant, dry_run, caps, proc, fileIdx, warnings, pre>>

\* user: <name>, freebsd.c: the name is copied, nothing is looked up
resolve_principal_named_orig ==
    /\ pc = "resolve_principal" /\ variant = "orig"
    /\ ~(create_user(caps) /\ caps.username = "auto")
    /\ Continue(World, "create_jail_filesystem")
    /\ target' = [target EXCEPT !.username = caps.username]
    /\ UNCHANGED <<parser, inv, verbose, loaded, env, variant, dry_run, caps, proc, fileIdx, warnings, pre>>

\* create_jail_filesystem: the path is written into jail_root_path, a
\* previous directory is removed, the directory is created (ok: mkdir -p
\* succeeds).
create_jail_filesystem ==
    /\ pc = "create_jail_filesystem"
    /\ \E ok \in BOOLEAN :
         LET w0 == [World EXCEPT !.rec.jail_root_path = RootPath,
                                 !.host = rm_rf(host)]
         IN IF ~ok
            THEN CleanupAndReturn(w0, HostView(proc), "root_dir")
            ELSE Continue([w0 EXCEPT !.host.root = TRUE,
                                     !.trace = Append(w0.trace, Acq("root", RootPath))],
                          "fs_skeleton")
    /\ UNCHANGED <<parser, inv, verbose, loaded, env, variant, dry_run, caps, proc, target, fileIdx, warnings, pre>>

\* setup_filesystem_isolation, the mkdir -p block (return values ignored)
setup_filesystem_isolation_skeleton ==
    /\ pc = "fs_skeleton"
    /\ Continue([World EXCEPT !.trace = Append(trace, Step("skeleton"))],
                IF variant = "plan" THEN "fs_workspace" ELSE "fs_copy_binary")
    /\ UNCHANGED <<parser, inv, verbose, loaded, env, variant, dry_run, caps, proc, target, fileIdx, warnings, pre>>

\* the workspace mount whose failure is a warning only
setup_filesystem_isolation_workspace_not_fatal ==
    /\ pc = "fs_workspace"
    /\ IF caps.workspace_path = ""
       THEN Continue(World, "fs_copy_binary")
       ELSE \E ok \in BOOLEAN :
              IF ~ok
              THEN /\ host' = host /\ rec' = rec /\ trace' = trace
                   /\ pc' = "fs_copy_binary" /\ failStep' = "workspace"
                   /\ UNCHANGED <<rollbacks, exitCode>>
              ELSE Continue([World EXCEPT
                       !.host.mounts = Append(host.mounts,
                                              Mount("/workspace", caps.workspace_path, "rw")),
                       !.trace = Append(trace, Acq("mount", "/workspace"))],
                     "fs_copy_binary")
    /\ UNCHANGED <<parser, inv, verbose, loaded, env, variant, dry_run, caps, proc, target, fileIdx, warnings, pre>>

\* setup_filesystem_isolation (plan), workspace block: mount -t nullfs -o rw
setup_filesystem_isolation_workspace ==
    /\ pc = "fs_workspace"
    /\ IF caps.workspace_path = ""
       THEN Continue(World, "fs_copy_binary")
       ELSE \E ok \in BOOLEAN :
              IF ~ok
              THEN CleanupAndReturn(World, HostView(proc), "workspace")
              ELSE Continue([World EXCEPT
                       !.host.mounts = Append(host.mounts,
                                              Mount("/workspace", caps.workspace_path, "rw")),
                       !.trace = Append(trace, Acq("mount", "/workspace"))],
                     "fs_copy_binary")
    /\ UNCHANGED <<parser, inv, verbose, loaded, env, variant, dry_run, caps, proc, target, fileIdx, warnings, pre>>

\* setup_filesystem_isolation: cp of the target binary (fatal), chmod, and
\* the passwd/group files
setup_filesystem_isolation_copy_binary ==
    /\ pc = "fs_copy_binary"
    /\ \E ok \in BOOLEAN :
         IF ~ok
         THEN CleanupAndReturn(World, HostView(proc), "copy_binary")
         ELSE Continue([World EXCEPT !.trace = Append(trace, Step("copy_binary"))],
                       IF variant = "plan" THEN "fs_devfs" ELSE "fs_system_mounts")
    /\ UNCHANGED <<parser, inv, verbose, loaded, env, variant, dry_run, caps, proc, target, fileIdx, warnings, pre>>

RECURSIVE mount_each(_, _, _, _)
mount_each(w, ts, okset, i) ==
    IF i > Len(ts) THEN w
    ELSE mount_each(IF ts[i] \in okset
                    THEN [w EXCEPT !.host.mounts = Append(w.host.mounts, Mount(ts[i], ts[i], "ro")),
                                   !.trace = Append(w.trace, Acq("mount", ts[i]))]
                    ELSE w,
                    ts, okset, i + 1)

SystemMounts == <<"/lib", "/usr/lib", "/libexec">>

\* setup_filesystem_isolation (freebsd.c): read-only nullfs mounts of /lib,
\* /usr/lib and /libexec; a failure is a warning
setup_filesystem_isolation_system_mounts ==
    /\ pc = "fs_system_mounts"
    /\ \E okset \in SUBSET {"/lib", "/usr/lib", "/libexec"} :
         /\ warnings + (3 - Cardinality(okset)) <= MaxWarnings
         /\ warnings' = warnings + (3 - Cardinality(okset))
         /\ Continue(mount_each(World, SystemMounts, okset, 1), "fs_devfs")
    /\ UNCHANGED <<parser, inv, verbose, loaded, env, variant, dry_run, caps, proc, target, fileIdx, pre>>

\* the devfs mount whose failure is fatal
setup_filesystem_isolation_devfs_fatal ==
    /\ pc = "fs_devfs"
    /\ \E ok \in BOOLEAN :
         IF ok
         THEN /\ Continue([World EXCEPT
                              !.host.mounts = Append(host.mounts, Mount("/dev", "devfs", "devfs")),
                              !.trace = Append(trace, Acq("mount", "/dev"))],
                          IF variant = "plan" /\ Len(caps.files) > 0 THEN "fs_file_rules"
                          ELSE "create_jail")
              /\ UNCHANGED warnings
         ELSE /\ warnings < MaxWarnings
              /\ warnings' = warnings + 1
              /\ CleanupAndReturn(World, HostView(proc), "devfs")
    /\ UNCHANGED <<parser, inv, verbose, loaded, env, variant, dry_run, caps, proc, target, fileIdx, pre>>

\* setup_filesystem_isolation: mount -t devfs; a failure is a warning
setup_filesystem_isolation_devfs ==
    /\ pc = "fs_devfs"
    /\ \E ok \in BOOLEAN :
         /\ ~ok => warnings < MaxWarnings
         /\ warnings' = IF ok THEN warnings ELSE warnings + 1
         /\ Continue(IF ok
                     THEN [World EXCEPT !.host.mounts = Append(host.mounts, Mount("/dev", "devfs", "devfs")),
                                        !.trace = Append(trace, Acq("mount", "/dev"))]
                     ELSE World,
                     IF variant = "plan" /\ Len(caps.files) > 0 THEN "fs_file_rules"
                     ELSE "create_jail")
    /\ UNCHANGED <<parser, inv, verbose, loaded, env, variant, dry_run, caps, proc, target, fileIdx, pre>>

\* setup_filesystem_isolation (plan): one iteration of the loop over
\* caps->files
setup_filesystem_isolation_file_rule ==
    /\ pc = "fs_file_rules"
    /\ fileIdx <= Len(caps.files)
    /\ LET rule == caps.files[fileIdx]
           next == IF fileIdx = Len(caps.files) THEN "create_jail" ELSE "fs_file_rules"
       IN IF R_OK \in rule.permissions /\ HostPathKind(rule.path) = "dir"
          THEN \E ok \in BOOLEAN :
                 /\ ~ok => warnings < MaxWarnings
                 /\ warnings' = IF ok THEN warnings ELSE warnings + 1
                 /\ Continue(IF ok
                             THEN [World EXCEPT
                                     !.host.mounts = Append(host.mounts,
                                         Mount(rule.path, rule.path,
                                               IF W_OK \in rule.permissions THEN "rw" ELSE "ro")),
                                     !.trace = Append(trace, Acq("mount", rule.path))]
                             ELSE World,
                             next)
          ELSE Continue(World, next) /\ UNCHANGED warnings
    /\ fileIdx' = fileIdx + 1
    /\ UNCHANGED <<parser, inv, verbose, loaded, env, variant, dry_run, caps, proc, target, pre>>

\* create_jail whose caller returns -1 without calling cleanup
create_jail_returns_without_cleanup ==
    /\ pc = "create_jail"
    /\ \E ok \in BOOLEAN :
         IF ~ok \/ JailName \in host.jails
         THEN ReturnError(World, "create_jail")
         ELSE Continue([World EXCEPT !.host.jails = host.jails \cup {JailName},
                                     !.rec.created_jail_id = Ids.jid,
                                     !.trace = Append(trace, Acq("jail", JailName))],
                       "setup_resource_limits")
    /\ UNCHANGED <<parser, inv, verbose, loaded, env, variant, dry_run, caps, proc, target, fileIdx, warnings, pre>>

\* create_jail, and the caller's "if (jid < 0) { cleanup; return -1; }"
create_jail ==
    /\ pc = "create_jail"
    /\ \E ok \in BOOLEAN :
         IF ~ok \/ JailName \in host.jails
         THEN CleanupAndReturn(World, HostView(proc), "create_jail")
         ELSE Continue([World EXCEPT !.host.jails = host.jails \cup {JailName},
                                     !.rec.created_jail_id = Ids.jid,
                                     !.trace = Append(trace, Acq("jail", JailName))],
                       "setup_resource_limits")
    /\ UNCHANGED <<parser, inv, verbose, loaded, env, variant, dry_run, caps, proc, target, fileIdx, warnings, pre>>

\* the rctl rules setup_resource_limits asks for, in its order:
\* jail:<name>:<metric>:deny=<value>
WantedRules(l) ==
    (IF l.memory_bytes > 0
     THEN <<[metric |-> "memoryuse", value |-> l.memory_bytes]>> ELSE <<>>)
    \o (IF l.max_processes > 0
        THEN <<[metric |-> "maxproc", value |-> l.max_processes]>> ELSE <<>>)
    \o (IF l.max_files > 0
        THEN <<[metric |-> "openfiles", value |-> l.max_files]>> ELSE <<>>)

RECURSIVE add_rules(_, _, _, _)
add_rules(w, rs, okset, i) ==
    IF i > Len(rs) THEN w
    ELSE add_rules(IF rs[i] \in okset
                   THEN [w EXCEPT !.host.rctl = w.host.rctl \cup {rs[i]},
                                  !.trace = Append(w.trace, Acq("rctl", rs[i].metric))]
                   ELSE w,
                   rs, okset, i + 1)

\* setup_resource_limits (always returns 0: a rule that fails is a warning),
\* then setup_network_isolation, which does nothing
setup_resource_limits ==
    /\ pc = "setup_resource_limits"
    /\ LET rs == WantedRules(caps.limits)
       IN \E okset \in SUBSET { rs[i] : i \in 1..Len(rs) } :
            /\ warnings + (Len(rs) - Cardinality(okset)) <= MaxWarnings
            /\ warnings' = warnings + (Len(rs) - Cardinality(okset))
            /\ Continue(add_rules(World, rs, okset, 1), "attach_to_jail")
    /\ UNCHANGED <<parser, inv, verbose, loaded, env, variant, dry_run, caps, proc, target, fileIdx, pre>>

\* attach_to_jail whose failure is ignored
attach_to_jail_failure_ignored ==
    /\ pc = "attach_to_jail"
    /\ \E ok \in BOOLEAN :
         IF ~ok
         THEN Continue(World, "switch_to_user") /\ UNCHANGED proc
         ELSE /\ Continue([World EXCEPT !.trace = Append(trace, Step("attach"))],
                          "switch_to_user")
              /\ proc' = [proc EXCEPT !.attached = TRUE]
    /\ UNCHANGED <<parser, inv, verbose, loaded, env, variant, dry_run, caps, target, fileIdx, warnings, pre>>

\* attach_to_jail
attach_to_jail ==
    /\ pc = "attach_to_jail"
    /\ \E ok \in BOOLEAN :
         IF ~ok
         THEN CleanupAndReturn(World, HostView(proc), "attach") /\ UNCHANGED proc
         ELSE /\ Continue([World EXCEPT !.trace = Append(trace, Step("attach"))],
                          "switch_to_user")
              /\ proc' = [proc EXCEPT !.attached = TRUE]
    /\ UNCHANGED <<parser, inv, verbose, loaded, env, variant, dry_run, caps, target, fileIdx, warnings, pre>>

\* switch_to_user without the setgid call
switch_to_user_plan_without_setgid ==
    /\ pc = "switch_to_user" /\ variant = "plan"
    /\ \E outcome \in {"ok", "setuid"} :
         LET p2 == IF outcome = "ok" THEN [proc EXCEPT !.uid = target.uid] ELSE proc
         IN IF outcome # "ok"
            THEN /\ proc' = p2 /\ UNCHANGED env
                 /\ CleanupAndReturn(World, HostView(p2), "switch_to_user")
            ELSE /\ proc' = [p2 EXCEPT !.atexit = TRUE]
                 /\ env' = setenv(setenv(setenv(env, "USER", target.username),
                                         "HOME", "/tmp"),
                                  "LD_LIBRARY_PATH", "/usr/local/lib:/usr/lib:/lib")
                 /\ Continue([World EXCEPT !.trace = Append(trace, Step("drop"))], "execv")
    /\ UNCHANGED <<parser, inv, verbose, loaded, variant, dry_run, caps, target, fileIdx, warnings, pre>>

\* switch_to_user(uid, gid, name) of the plan listing, then atexit().
\* outcome: which call fails, if any.  setgid and setuid of the super-user
\* set the real, effective and saved id together, so one uid and one gid
\* stand for them.
switch_to_user_plan ==
    /\ pc = "switch_to_user" /\ variant = "plan"
    /\ \E outcome \in {"ok", "setgid", "setuid"} :
         LET p1 == IF outcome = "setgid" THEN proc ELSE [proc EXCEPT !.gid = target.gid]
             p2 == IF outcome = "ok" THEN [p1 EXCEPT !.uid = target.uid] ELSE p1
         IN IF outcome # "ok"
            THEN /\ proc' = p2 /\ UNCHANGED env
                 /\ CleanupAndReturn(World, HostView(p2), "switch_to_user")
            ELSE /\ proc' = [p2 EXCEPT !.atexit = TRUE]
                 /\ env' = setenv(setenv(setenv(env, "USER", target.username),
                                         "HOME", "/tmp"),
                                  "LD_LIBRARY_PATH", "/usr/local/lib:/usr/lib:/lib")
                 /\ Continue([World EXCEPT !.trace = Append(trace, Step("drop"))], "execv")
    /\ UNCHANGED <<parser, inv, verbose, loaded, variant, dry_run, caps, target, fileIdx, warnings, pre>>

\* switch_to_user(name) of freebsd.c, then atexit().  The name is looked up
\* inside the jail: by getpwnam, or, when that finds nothing (the jail has
\* the host's /etc/passwd but not its database), by reading /etc/passwd,
\* which is the host's copy.  The getpwnam path calls setgid, initgroups,
\* setuid and sets USER, HOME and SHELL; the /etc/passwd path calls setgid
\* and setuid only.
switch_to_user_orig ==
    /\ pc = "switch_to_user" /\ variant = "orig"
    /\ \E lookup \in {"getpwnam", "passwd_file"},
          outcome \in {"ok", "setgid", "initgroups", "setuid"} :
         /\ outcome = "initgroups" => lookup = "getpwnam"
         /\ LET found == target.username \in host.users
                p1 == IF ~found \/ outcome = "setgid" THEN proc
                      ELSE [proc EXCEPT !.gid = PrincipalGid(target.username)]
                p2 == IF found /\ outcome = "ok"
                      THEN [p1 EXCEPT !.uid = PrincipalId(target.username)]
                      ELSE p1
            IN IF ~found \/ outcome # "ok"
               THEN /\ proc' = p2 /\ UNCHANGED env
                    /\ CleanupAndReturn(World, HostView(p2), "switch_to_user")
               ELSE /\ proc' = [p2 EXCEPT !.atexit = TRUE]
                    /\ env' = IF lookup = "getpwnam"
                              THEN setenv(setenv(setenv(env, "USER", target.username),
                                                 "HOME", PwDir(target.username)),
                                          "SHELL", PwShell(target.username))
                              ELSE env
                    /\ Continue([World EXCEPT !.trace = Append(trace, Step("drop"))],
                                "execv")
    /\ UNCHANGED <<parser, inv, verbose, loaded, variant, dry_run, caps, target, fileIdx, warnings, pre>>

\* --------------------------------------------------------------- main, part 2
\* main() that leaves with _exit(1) when execv fails: no exit handler runs
main_execv_without_exit_handler ==
    /\ pc = "execv"
    /\ \E ok \in BOOLEAN :
         IF ok
         THEN /\ pc' = "payload"
              /\ proc' = [proc EXCEPT !.atexit = FALSE]
              /\ trace' = Append(trace, Step("exec"))
              /\ UNCHANGED <<host, rec, rollbacks, exitCode>>
         ELSE /\ pc' = "done" /\ exitCode' = 1
              /\ UNCHANGED <<host, rec, trace, rollbacks, proc>>
    /\ UNCHANGED <<parser, inv, verbose, loaded, env, variant, dry_run, caps, target, fileIdx, warnings,
                   failStep, pre>>

\* main(): execv.  On success the process image is replaced, and the atexit
\* handler with it.  On failure main returns 1 and exit() runs the handler.
main_execv ==
    /\ pc = "execv"
    /\ \E ok \in BOOLEAN :
         IF ok
         THEN /\ pc' = "payload"
              /\ proc' = [proc EXCEPT !.atexit = FALSE]
              /\ trace' = Append(trace, Step("exec"))
              /\ UNCHANGED <<host, rec, rollbacks, exitCode>>
         ELSE LET c == IF proc.atexit THEN cleanup_jail(World, HostView(proc)) ELSE World
              IN /\ host' = c.host /\ rec' = c.rec /\ trace' = c.trace
                 /\ rollbacks' = IF proc.atexit THEN rollbacks + 1 ELSE rollbacks
                 /\ pc' = "done" /\ exitCode' = 1
                 /\ UNCHANGED proc
    /\ UNCHANGED <<parser, inv, verbose, loaded, env, variant, dry_run, caps, target, fileIdx, warnings, failStep, pre>>

\* the payload writes the file "out" into /workspace, which is the host
\* workspace directory when that is mounted there
payload_write ==
    /\ pc = "payload"
    /\ LET i == TopIndex(host.mounts, "/workspace")
       IN /\ i # 0
          /\ "out" \notin host.files[host.mounts[i].src]
          /\ host' = [host EXCEPT !.files[host.mounts[i].src] = @ \cup {"out"}]
    /\ trace' = Append(trace, Step("payload_write"))
    /\ UNCHANGED <<parser, inv, verbose, loaded, env, variant, dry_run, caps, rec, proc, target, pc, fileIdx, warnings, exitCode,
                   failStep, rollbacks, pre>>

\* the payload exits; its status is the process's status
payload_exit ==
    /\ pc = "payload"
    /\ pc' = "exited"
    /\ \E code \in {0, 2} : exitCode' = code
    /\ UNCHANGED <<parser, inv, verbose, loaded, env, variant, dry_run, caps, host, rec, proc, target, fileIdx, warnings,
                   failStep, rollbacks, trace, pre>>

\* SIGTERM, SIGINT or SIGHUP is delivered while the pipeline runs.  main
\* and the back end install no handler: the default action ends the process
\* at once, and no exit handler runs.
ProvisioningPcs ==
    {"create_jail_filesystem", "fs_skeleton", "fs_workspace", "fs_copy_binary",
     "fs_system_mounts", "fs_devfs", "fs_file_rules", "create_jail",
     "setup_resource_limits", "attach_to_jail", "switch_to_user", "execv"}

signal_delivered ==
    /\ pc \in ProvisioningPcs
    /\ pc' = "killed"
    /\ UNCHANGED <<parser, inv, verbose, loaded, env, variant, dry_run, caps, host, rec, proc, target,
                   fileIdx, warnings, exitCode, failStep, rollbacks, trace, pre>>

Next ==
    \/ main_load_capabilities
    \/ main_dry_run
    \/ main_privilege_check
    \/ resolve_principal_auto
    \/ resolve_principal_named_plan
    \/ resolve_principal_named_orig
    \/ create_jail_filesystem
    \/ setup_filesystem_isolation_skeleton
    \/ setup_filesystem_isolation_workspace
    \/ setup_filesystem_isolation_copy_binary
    \/ setup_filesystem_isolation_system_mounts
    \/ setup_filesystem_isolation_devfs
    \/ setup_filesystem_isolation_file_rule
    \/ create_jail
    \/ setup_resource_limits
    \/ attach_to_jail
    \/ switch_to_user_plan
    \/ switch_to_user_orig
    \/ main_execv
    \/ signal_delivered
    \/ payload_write
    \/ payload_exit

Spec == Init /\ [][Next]_vars

\* ------------------------------------------------- names of two invocations
\* Strings are sequences of characters here, so that formatting into a
\* buffer (and its truncation) is computed.
DigitChars == <<"0", "1", "2", "3", "4", "5", "6", "7", "8", "9">>

\* %d of a positive int
RECURSIVE Dec(_)
Dec(n) == IF n < 10 THEN <<DigitChars[n + 1]>> ELSE Dec(n \div 10) \o <<DigitChars[(n % 10) + 1]>>

\* sizes of the buffers the names are formatted into
BufSize == [jail_name |-> 64, username |-> 64, ephemeral_username |-> 64,
            jail_root_path |-> 1024]

\* snprintf(buf, size, ...): at most size - 1 characters are kept
snprintf(size, str) == SubSeq(str, 1, IF Len(str) < size - 1 THEN Len(str) ELSE size - 1)

\* strncpy(dst, src, n) into a zeroed buffer
strncpy(str, n) == SubSeq(str, 1, IF Len(str) < n THEN Len(str) ELSE n)

\* jail_name formatted into a buffer of 10 bytes
jail_name_short_buffer(pid) ==
    snprintf(10, <<"i", "s", "o", "l", "a", "t", "e", "-">> \o Dec(pid))

\* snprintf(jail_name, sizeof(jail_name), "isolate-%d", getpid())
jail_name(pid) ==
    snprintf(BufSize.jail_name, <<"i", "s", "o", "l", "a", "t", "e", "-">> \o Dec(pid))

\* snprintf(username, sizeof(username), "app-%d", getpid()), then
\* strncpy(ephemeral_username, username, sizeof(ephemeral_username) - 1)
ephemeral_name(pid) ==
    strncpy(snprintf(BufSize.username, <<"a", "p", "p", "-">> \o Dec(pid)),
            BufSize.ephemeral_username - 1)

\* snprintf(jail_path, jail_path_size, "/tmp/isolate-%s", jail_name)
root_path(name) ==
    snprintf(BufSize.jail_root_path,
             <<"/", "t", "m", "p", "/", "i", "s", "o", "l", "a", "t", "e", "-">> \o name)

\* the mount points beneath a root directory: <root>/dev, <root>/lib and
\* <root>/workspace stand for all of them
MountTargets ==
    { <<"/", "d", "e", "v">>, <<"/", "l", "i", "b">>,
      <<"/", "w", "o", "r", "k", "s", "p", "a", "c", "e">> }

mount_points(root) == { root \o t : t \in MountTargets }

Invocations == {1, 2}

\* two launcher processes alive at the same time: the host gives them
\* different pids
InitNames ==
    /\ \E a, b \in 1..MaxPid :
          /\ a # b
          /\ inv = [i \in Invocations |->
                      [pid |-> IF i = 1 THEN a ELSE b, derived |-> FALSE,
                       jail_name |-> <<>>, ephemeral_username |-> <<>>,
                       jail_root_path |-> <<>>, mount_points |-> {}]]
    /\ parser = <<>>
    /\ variant = "orig"
    /\ dry_run = FALSE
    /\ verbose = FALSE
    /\ caps = init_default_capabilities
    /\ loaded = [ret |-> "", warned |-> FALSE]
    /\ env = CallerEnv
    /\ host = [users |-> {"svc"}, root |-> FALSE, mounts |-> <<>>, jails |-> {},
               rctl |-> {}, files |-> [d \in HostDirs |-> {"pre"}]]
    /\ rec = [created_jail_id |-> NoJail, jail_root_path |-> "", ephemeral_username |-> ""]
    /\ proc = [attached |-> FALSE, uid |-> RootUid, gid |-> RootUid, atexit |-> FALSE]
    /\ target = [uid |-> 0, gid |-> 0, username |-> ""]
    /\ pc = "load_capabilities"
    /\ fileIdx = 1
    /\ warnings = 0
    /\ exitCode = -1
    /\ failStep = ""
    /\ rollbacks = 0
    /\ trace = <<>>
    /\ pre = host

\* freebsd_create_isolation and create_jail_filesystem of invocation i: the
\* names it derives from its pid
derive_names(i) ==
    /\ ~inv[i].derived
    /\ LET jn == jail_name(inv[i].pid)
           root == root_path(jn)
       IN inv' = [inv EXCEPT ![i] =
                    [pid |-> inv[i].pid, derived |-> TRUE,
                     jail_name |-> jn,
                     ephemeral_username |-> ephemeral_name(inv[i].pid),
                     jail_root_path |-> root,
                     mount_points |-> mount_points(root)]]
    /\ UNCHANGED <<variant, dry_run, caps, host, rec, proc, target, pc, fileIdx, warnings,
                   exitCode, failStep, rollbacks, trace, pre, verbose, loaded, env, parser>>

NextNames == \E i \in Invocations : derive_names(i)

SpecNames == InitNames /\ [][NextNames]_vars

\* ------------------------------------------------------- the policy parser
\* Text is a sequence of characters.  <<>> also stands for the NULL that
\* strtok returns: a token is never empty.
isspace(c) == c \in {" ", "\t"}

LowerChars == <<"a", "b", "c", "d", "e", "f", "g", "h", "i", "j", "k", "l", "m", "n", "o", "p", "q", "r", "s", "t", "u", "v", "w", "x", "y", "z">>
UpperChars == <<"A", "B", "C", "D", "E", "F", "G", "H", "I", "J", "K", "L", "M", "N", "O", "P", "Q", "R", "S", "T", "U", "V", "W", "X", "Y", "Z">>

toupper(c) ==
    IF \E i \in 1..Len(LowerChars) : LowerChars[i] = c
    THEN UpperChars[CHOOSE i \in 1..Len(LowerChars) : LowerChars[i] = c]
    ELSE c

isdigit(c) == \E i \in 1..Len(DigitChars) : DigitChars[i] = c

DigitValue(c) == (CHOOSE i \in 1..Len(DigitChars) : DigitChars[i] = c) - 1

\* index of the first character of s that is c, 0 when there is none
strchr(s, c) ==
    IF \E i \in 1..Len(s) : s[i] = c
    THEN CHOOSE i \in 1..Len(s) : s[i] = c /\ \A j \in 1..(i - 1) : s[j] # c
    ELSE 0

strcmp(a, b) == IF a = b THEN 0 ELSE 1

trim_whitespace(str) ==
    IF \A i \in 1..Len(str) : isspace(str[i]) THEN <<>>
    ELSE LET first == CHOOSE i \in 1..Len(str) :
                          ~isspace(str[i]) /\ \A j \in 1..(i - 1) : isspace(str[j])
             last == CHOOSE i \in 1..Len(str) :
                          ~isspace(str[i]) /\ \A j \in (i + 1)..Len(str) : isspace(str[j])
         IN SubSeq(str, first, last)

parse_key_value(line) ==
    LET colon == strchr(line, ":")
    IN IF colon = 0 THEN [ret |-> -1, key |-> <<>>, value |-> <<>>]
       ELSE [ret |-> 0,
             key |-> trim_whitespace(SubSeq(line, 1, colon - 1)),
             value |-> trim_whitespace(SubSeq(line, colon + 1, Len(line)))]

\* the successive results of strtok(s, ":"), strtok(NULL, ":"), ...: the
\* non-empty fields between colons
RECURSIVE strtok(_)
strtok(s) ==
    IF \A i \in 1..Len(s) : s[i] = ":" THEN <<>>
    ELSE LET start == CHOOSE i \in 1..Len(s) : s[i] # ":" /\ \A j \in 1..(i - 1) : s[j] = ":"
             rest == SubSeq(s, start, Len(s))
             colon == strchr(rest, ":")
         IN IF colon = 0 THEN <<rest>>
            ELSE <<SubSeq(rest, 1, colon - 1)>> \o strtok(SubSeq(rest, colon + 1, Len(rest)))

\* the i-th result of strtok, NULL past the last field
Token(toks, i) == IF i <= Len(toks) THEN toks[i] ELSE <<>>

\* number of decimal digits of s from position i on
RECURSIVE DigitRun(_, _)
DigitRun(s, i) == IF i <= Len(s) /\ isdigit(s[i]) THEN 1 + DigitRun(s, i + 1) ELSE 0

\* value of the n decimal digits of s from position i on
RECURSIVE DigitsValue(_, _, _)
DigitsValue(s, i, n) ==
    IF n = 0 THEN 0 ELSE DigitsValue(s, i, n - 1) * 10 + DigitValue(s[i + n - 1])

\* position behind leading white space and an optional sign
SignPos(s) ==
    LET sp == IF \A i \in 1..Len(s) : isspace(s[i]) THEN Len(s) + 1
              ELSE CHOOSE i \in 1..Len(s) : ~isspace(s[i]) /\ \A j \in 1..(i - 1) : isspace(s[j])
    IN [neg |-> sp <= Len(s) /\ s[sp] = "-",
        pos |-> IF sp <= Len(s) /\ s[sp] \in {"-", "+"} THEN sp + 1 ELSE sp]

RECURSIVE Pow10(_)
Pow10(n) == IF n = 0 THEN 1 ELSE 10 * Pow10(n - 1)

\* the number of characters of an exponent e<digits> at position e of s, 0
\* when there is none
ExponentRun(s, e) ==
    IF e <= Len(s) /\ s[e] \in {"e", "E"} /\ DigitRun(s, e + 1) > 0
    THEN 1 + DigitRun(s, e + 1)
    ELSE 0

\* the result of a conversion: sign, n digits at position pos of s and x
\* characters of exponent behind them.  Without a digit nothing is converted
\* and endptr is s.
Converted(s, neg, pos, n, x) ==
    IF n = 0 THEN [value |-> 0, endptr |-> s]
    ELSE [value |-> (IF neg THEN -1 ELSE 1) * DigitsValue(s, pos, n)
                      * (IF x = 0 THEN 1 ELSE Pow10(DigitsValue(s, pos + n + 1, x - 1))),
          endptr |-> SubSeq(s, pos + n + x, Len(s))]

\* strtol(s, &endptr, 10): the value and what endptr points at
strtol(s) == Converted(s, SignPos(s).neg, SignPos(s).pos, DigitRun(s, SignPos(s).pos), 0)

atoi(s) == strtol(s).value

\* strtod(s, &endptr) on text without a fraction, a hexadecimal prefix, inf
\* or nan: decimal digits and an optional exponent e<digits>
strtod(s) ==
    Converted(s, SignPos(s).neg, SignPos(s).pos, DigitRun(s, SignPos(s).pos),
              ExponentRun(s, SignPos(s).pos + DigitRun(s, SignPos(s).pos)))

\* parse_memory_size behind strtod: value and endptr are what strtod gave,
\* old is *bytes before.  The sizes of the documents stay far below the
\* range of size_t.
memory_size(value, endptr, old) ==
    LET suffix == IF endptr = <<>> THEN "" ELSE toupper(endptr[1])
    IN IF value < 0 THEN [ret |-> -1, bytes |-> old]
       ELSE IF suffix \notin {"", "K", "M", "G", "B"} THEN [ret |-> -1, bytes |-> old]
       ELSE [ret |-> 0,
             bytes |-> value * (CASE suffix = "K" -> 1024
                                  [] suffix = "M" -> 1024 * 1024
                                  [] suffix = "G" -> 1024 * 1024 * 1024
                                  [] OTHER -> 1)]

\* parse_memory_size(size_str, &bytes): the return value and *bytes
\* afterwards
parse_memory_size(size_str, old) ==
    memory_size(strtod(size_str).value, strtod(size_str).endptr, old)

\* sizes of the text fields of the policy structures
FieldSize == [protocol |-> 8, address |-> 256, path |-> 1024, username |-> 64,
              env_name |-> 256, env_value |-> 1024]

\* int direction of struct network_rule: 0=both, 1=outbound, 2=inbound
Direction == [both |-> 0, out |-> 1, in |-> 2]

\* struct network_rule after memset 0
EmptyNetworkRule == [protocol |-> <<>>, address |-> <<>>, port |-> 0, direction |-> 0]

\* parse_network_rule behind the four calls of strtok: port is what
\* strtol(addr_or_port, &endptr, 10) gave, fifth what one more call of
\* strtok returns
network_rule(proto, addr_or_port, port_or_dir, fourth, fifth, port) ==
    LET isPort == port.endptr = <<>> /\ port.value > 0 /\ port.value < 65536
        r0 == [EmptyNetworkRule EXCEPT !.protocol = strncpy(proto, FieldSize.protocol - 1)]
        \* what `direction' holds when it is examined
        direction ==
            IF strcmp(proto, <<"u", "n", "i", "x">>) # 0 /\ addr_or_port # <<>> /\ ~isPort
               /\ port_or_dir # <<>>
            THEN fifth
            ELSE fourth
        r1 == IF strcmp(proto, <<"u", "n", "i", "x">>) = 0
              THEN [r0 EXCEPT !.address = strncpy(addr_or_port, FieldSize.address - 1),
                              !.port = -1]
              ELSE IF addr_or_port = <<>> THEN r0
              ELSE IF isPort
                   THEN [r0 EXCEPT !.port = port.value, !.address = <<"0", ".", "0", ".", "0", ".", "0">>]
                   ELSE [r0 EXCEPT !.address = strncpy(addr_or_port, FieldSize.address - 1),
                                   !.port = IF port_or_dir # <<>> THEN atoi(port_or_dir)
                                            ELSE -1]
    IN IF proto = <<>> THEN [ret |-> -1, rule |-> EmptyNetworkRule]
       ELSE [ret |-> 0,
             rule |-> [r1 EXCEPT !.direction =
                          IF direction \in {<<"o", "u", "t", "b", "o", "u", "n", "d">>, <<"o", "u", "t">>} THEN 1
                          ELSE IF direction \in {<<"i", "n", "b", "o", "u", "n", "d">>, <<"i", "n">>} THEN 2
                          ELSE 0]]

\* parse_network_rule(rule_str, rule)
parse_network_rule(rule_str) ==
    IF strcmp(rule_str, <<"n", "o", "n", "e">>) = 0
    THEN [ret |-> 0, rule |-> [EmptyNetworkRule EXCEPT !.protocol = <<"n", "o", "n", "e">>]]
    ELSE network_rule(Token(strtok(rule_str), 1), Token(strtok(rule_str), 2),
                      Token(strtok(rule_str), 3), Token(strtok(rule_str), 4),
                      Token(strtok(rule_str), 5), strtol(Token(strtok(rule_str), 2)))

\* parse_file_rule(rule_str, rule)
parse_file_rule(rule_str) ==
    LET toks == strtok(rule_str)
        path == Token(toks, 1)
        perms == Token(toks, 2)
        has(c) == strchr(perms, c) # 0
    IN IF path = <<>> THEN [ret |-> -1, rule |-> [path |-> <<>>, permissions |-> {}]]
       ELSE [ret |-> 0,
             rule |-> [path |-> strncpy(path, FieldSize.path - 1),
                       permissions |->
                          IF perms = <<>> THEN {R_OK}
                          ELSE (IF has("r") \/ has("R") THEN {R_OK} ELSE {})
                               \cup (IF has("w") \/ has("W") THEN {W_OK} ELSE {})
                               \cup (IF has("x") \/ has("X") THEN {X_OK} ELSE {})]]

\* the caps on the rule arrays
MaxRules == [network |-> 16, file |-> 32, env |-> 32]

\* init_default_capabilities, with text as character sequences
init_default_parsed ==
    [ username |-> <<"a", "u", "t", "o">>, create_user |-> TRUE, workspace_path |-> <<>>,
      limits |-> NoLimits,
      network |-> <<>>, network_default_deny |-> FALSE,
      files |-> <<>>, fs_default_deny |-> FALSE,
      env_vars |-> <<>>, env_clear |-> FALSE ]

\* load_capabilities, the body of the loop for one line that is neither
\* empty nor a comment and has a colon: the policy afterwards and whether a
\* warning was printed
apply_key_value(c, key, value) ==
    CASE key = <<"u", "s", "e", "r">> ->
           [caps |-> [c EXCEPT !.username = strncpy(value, FieldSize.username - 1),
                               !.create_user = (strcmp(value, <<"a", "u", "t", "o">>) = 0)],
            warned |-> FALSE]
      [] key = <<"m", "e", "m", "o", "r", "y">> ->
           LET m == parse_memory_size(value, c.limits.memory_bytes)
           IN [caps |-> [c EXCEPT !.limits.memory_bytes = m.bytes], warned |-> m.ret # 0]
      [] key = <<"p", "r", "o", "c", "e", "s", "s", "e", "s">> ->
           [caps |-> [c EXCEPT !.limits.max_processes = atoi(value)], warned |-> FALSE]
      [] key = <<"f", "i", "l", "e", "s">> ->
           [caps |-> [c EXCEPT !.limits.max_files = atoi(value)], warned |-> FALSE]
      [] key = <<"c", "p", "u">> ->
           [caps |-> [c EXCEPT !.limits.max_cpu_percent = atoi(value)], warned |-> FALSE]
      [] key = <<"n", "e", "t", "w", "o", "r", "k">> ->
           IF Len(c.network) < MaxRules.network
           THEN LET r == parse_network_rule(value)
                IN IF r.ret = 0
                   THEN [caps |-> [c EXCEPT !.network = Append(c.network, r.rule)],
                         warned |-> FALSE]
                   ELSE [caps |-> c, warned |-> TRUE]
           ELSE [caps |-> c, warned |-> FALSE]
      [] key = <<"f", "i", "l", "e", "s", "y", "s", "t", "e", "m">> \/ key = <<"f", "i", "l", "e">> ->
           IF Len(c.files) < MaxRules.file
           THEN LET r == parse_file_rule(value)
                IN IF r.ret = 0
                   THEN [caps |-> [c EXCEPT !.files = Append(c.files, r.rule)],
                         warned |-> FALSE]
                   ELSE [caps |-> c, warned |-> TRUE]
           ELSE [caps |-> c, warned |-> FALSE]
      [] key = <<"e", "n", "v">> ->
           LET eq == strchr(value, "=")
           IN IF Len(c.env_vars) < MaxRules.env /\ eq # 0
              THEN [caps |-> [c EXCEPT !.env_vars = Append(c.env_vars,
                                [name |-> strncpy(SubSeq(value, 1, eq - 1),
                                                  FieldSize.env_name - 1),
                                 value |-> strncpy(SubSeq(value, eq + 1, Len(value)),
                                                   FieldSize.env_value - 1)])],
                    warned |-> FALSE]
              ELSE [caps |-> c, warned |-> FALSE]
      [] key = <<"n", "e", "t", "w", "o", "r", "k", "_", "d", "e", "f", "a", "u", "l", "t">> ->
           [caps |-> [c EXCEPT !.network_default_deny = (strcmp(value, <<"d", "e", "n", "y">>) = 0)],
            warned |-> FALSE]
      [] key = <<"f", "i", "l", "e", "s", "y", "s", "t", "e", "m", "_", "d", "e", "f", "a", "u", "l", "t">> ->
           [caps |-> [c EXCEPT !.fs_default_deny = (strcmp(value, <<"d", "e", "n", "y">>) = 0)],
            warned |-> FALSE]
      [] key = <<"e", "n", "v", "_", "c", "l", "e", "a", "r">> ->
           [caps |-> [c EXCEPT !.env_clear = (strcmp(value, <<"t", "r", "u", "e">>) = 0
                                              \/ strcmp(value, <<"1">>) = 0)],
            warned |-> FALSE]
      [] OTHER -> [caps |-> c, warned |-> TRUE]

\* load_capabilities, one line read by fgets
apply_line(c, line) ==
    LET trimmed == trim_whitespace(line)
        kv == parse_key_value(trimmed)
    IN IF trimmed = <<>> \/ trimmed[1] = "#" THEN [caps |-> c, warned |-> FALSE]
       ELSE IF kv.ret # 0 THEN [caps |-> c, warned |-> TRUE]
       ELSE apply_key_value(c, kv.key, kv.value)

\* ------------------------------------------------------ policy documents
\* the lines a short document is made of
LineChoices ==
    { <<"u", "s", "e", "r", ":", " ", "s", "v", "c">>,
      <<"m", "e", "m", "o", "r", "y", ":", " ", "5", "1", "2", "M">>,
      <<"m", "e", "m", "o", "r", "y", ":", " ", "b", "a", "n", "a", "n", "a">>,
      <<"m", "e", "m", "o", "r", "y", ":", " ", "5", "1", "2", "M", "B">>,
      <<"m", "e", "m", "o", "r", "y", ":", " ", "1", "2", "X">>,
      <<"m", "e", "m", "o", "r", "y", ":", " ", "2", "k">>,
      <<"m", "e", "m", "o", "r", "y", ":", " ", "1", "G">>,
      <<"m", "e", "m", "o", "r", "y", ":", " ", "1">>,
      <<"m", "e", "m", "o", "r", "y", ":", " ", "7", "b">>,
      <<"m", "e", "m", "o", "r", "y", ":", " ", "1", "e", "3">>,
      <<"m", "e", "m", "o", "r", "y", ":", " ", "-", "5", "M">>,
      <<"p", "r", "o", "c", "e", "s", "s", "e", "s", ":", " ", "a", "b", "c">>,
      <<"p", "r", "o", "c", "e", "s", "s", "e", "s", ":", " ", "-", "5">>,
      <<"p", "r", "o", "c", "e", "s", "s", "e", "s", ":", " ", "1", "0">>,
      <<"f", "i", "l", "e", "s", ":", " ", "6", "4">>,
      <<" ", "c", "p", "u", " ", ":", "\t", "5", "0", " ", " ">>,
      <<"e", "n", "v", ":", " ", "N", "O", "E", "Q", "U", "A", "L", "S">>,
      <<"e", "n", "v", ":", " ", "F", "O", "O", "=", "1">>,
      <<"n", "e", "t", "w", "o", "r", "k", ":", " ", "u", "d", "p", ":", "5", "3", ":", "o", "u", "t", "b", "o", "u", "n", "d">>,
      <<"n", "e", "t", "w", "o", "r", "k", ":", " ", "t", "c", "p", ":", "1", "9", "2", ".", "1", "6", "8", ".", "1", ".", "1", ":", "8", "0", ":", "i", "n">>,
      <<"n", "e", "t", "w", "o", "r", "k", ":", " ", "i", "c", "m", "p", ":", "1">>,
      <<"n", "e", "t", "w", "o", "r", "k", ":", " ", "n", "o", "n", "e">>,
      <<"n", "e", "t", "w", "o", "r", "k", ":", " ", "u", "n", "i", "x", ":", "/", "t", "m", "p", "/", "s", "o", "c", "k", "e", "t">>,
      <<"n", "e", "t", "w", "o", "r", "k", ":", " ", "t", "c", "p", ":", "4", "4", "3">>,
      <<"n", "e", "t", "w", "o", "r", "k", ":", " ", "t", "c", "p", ":", "1", "0", ".", "0", ".", "0", ".", "1", ":", "9", "9", "9", "9", "9">>,
      <<"n", "e", "t", "w", "o", "r", "k", ":", " ", ":">>,
      <<"f", "i", "l", "e", ":", " ", ".", ".", "/", "e", "t", "c", ":", "r">>,
      <<"f", "i", "l", "e", ":", " ", "/", "d", "a", "t", "a", ":", "r", "w">>,
      <<"f", "i", "l", "e", ":", " ", "/", "d", "a", "t", "a", "/">>,
      <<"f", "i", "l", "e", "s", "y", "s", "t", "e", "m", ":", " ", ":">>,
      <<"w", "o", "r", "k", "s", "p", "a", "c", "e", ":", " ", "/", "w", "s">>,
      <<"b", "o", "g", "u", "s", ":", " ", "1">>,
      <<"g", "a", "r", "b", "a", "g", "e">>,
      <<"#", " ", "m", "e", "m", "o", "r", "y", ":", " ", "1", "G">>,
      <<" ", " ">>,
      <<"n", "e", "t", "w", "o", "r", "k", "_", "d", "e", "f", "a", "u", "l", "t", ":", " ", "d", "e", "n", "y">>,
      <<"f", "i", "l", "e", "s", "y", "s", "t", "e", "m", "_", "d", "e", "f", "a", "u", "l", "t", ":", " ", "d", "e", "n", "y">>,
      <<"e", "n", "v", "_", "c", "l", "e", "a", "r", ":", " ", "t", "r", "u", "e">> }

\* the i-th line of a long document of one kind; every line is different
LongLine(kind, i) ==
    CASE kind = "network" -> <<"n", "e", "t", "w", "o", "r", "k", ":", " ", "t", "c", "p", ":">> \o Dec(i)
      [] kind = "file" -> <<"f", "i", "l", "e", ":", " ", "/", "d">> \o Dec(i)
      [] kind = "env" -> <<"e", "n", "v", ":", " ", "V">> \o Dec(i) \o <<"=", "x">>

\* a line of each kind that its rule parser rejects or skips
RejectedLine ==
    [network |-> <<"n", "e", "t", "w", "o", "r", "k", ":", " ", ":">>,
     file |-> <<"f", "i", "l", "e", ":", " ", ":">>,
     env |-> <<"e", "n", "v", ":", " ", "N", "O", "E", "Q", "U", "A", "L", "S">>]

\* documents with more entries of one kind than its array holds, with or
\* without a rejected entry in first place
LongDocuments ==
    { [i \in 1..(MaxRules[kind] + excess) |->
          IF bad /\ i = 1 THEN RejectedLine[kind] ELSE LongLine(kind, i)] :
        kind \in {"network", "file", "env"}, excess \in 1..MaxExcess, bad \in BOOLEAN }

\* one line for every key load_capabilities recognizes
KeyLines ==
    { <<"u", "s", "e", "r", ":", " ", "s", "v", "c">>,
      <<"m", "e", "m", "o", "r", "y", ":", " ", "5", "1", "2", "M">>,
      <<"p", "r", "o", "c", "e", "s", "s", "e", "s", ":", " ", "1", "0">>,
      <<"f", "i", "l", "e", "s", ":", " ", "6", "4">>,
      <<"c", "p", "u", ":", " ", "5", "0">>,
      <<"n", "e", "t", "w", "o", "r", "k", ":", " ", "t", "c", "p", ":", "4", "4", "3">>,
      <<"f", "i", "l", "e", "s", "y", "s", "t", "e", "m", ":", " ", "/", "d", "a", "t", "a", ":", "r", "w">>,
      <<"f", "i", "l", "e", ":", " ", "/", "d", "a", "t", "a", ":", "r", "w">>,
      <<"e", "n", "v", ":", " ", "F", "O", "O", "=", "1">>,
      <<"n", "e", "t", "w", "o", "r", "k", "_", "d", "e", "f", "a", "u", "l", "t", ":", " ", "d", "e", "n", "y">>,
      <<"f", "i", "l", "e", "s", "y", "s", "t", "e", "m", "_", "d", "e", "f", "a", "u", "l", "t", ":", " ", "d", "e", "n", "y">>,
      <<"e", "n", "v", "_", "c", "l", "e", "a", "r", ":", " ", "t", "r", "u", "e">> }

\* a comment behind the value of a line
Note == <<" ", "#", " ", "n", "o", "t", "e">>

\* documents of one line with a key, a value and a comment behind it
CommentedDocuments == { <<l \o Note>> : l \in KeyLines }

\* --------------------------------------------------- the detection tool
\* struct capability_hint as the analyzers fill it in (description,
\* capability, confidence), with the entries its capability text stands for
HintChoices ==
    { [description |-> <<"S", "S", "L", "/", "T", "L", "S", " ", "l", "i", "b", "r", "a", "r", "y", " ", "-", " ", "l", "i", "k", "e", "l", "y", " ", "n", "e", "e", "d", "s", " ", "n", "e", "t", "w", "o", "r", "k", " ", "a", "c", "c", "e", "s", "s">>,
       capability |-> <<"n", "e", "t", "w", "o", "r", "k", ":", " ", "t", "c", "p", ":", "4", "4", "3", ":", "o", "u", "t", "b", "o", "u", "n", "d", "\n", "n", "e", "t", "w", "o", "r", "k", ":", " ", "t", "c", "p", ":", "8", "0", ":", "o", "u", "t", "b", "o", "u", "n", "d">>,
       confidence |-> 80,
       network |-> <<[protocol |-> <<"t", "c", "p">>, port |-> 443, direction |-> Direction.out], [protocol |-> <<"t", "c", "p">>, port |-> 80, direction |-> Direction.out]>>, files |-> <<>>, env |-> <<>>, limits |-> <<>>],
      [description |-> <<"G", "U", "I", " ", "l", "i", "b", "r", "a", "r", "y", " ", "-", " ", "n", "e", "e", "d", "s", " ", "X", "1", "1", " ", "a", "c", "c", "e", "s", "s">>,
       capability |-> <<"f", "i", "l", "e", "s", "y", "s", "t", "e", "m", ":", " ", "/", "t", "m", "p", "/", ".", "X", "1", "1", "-", "u", "n", "i", "x", ":", "r", "w", "\n", "e", "n", "v", ":", " ", "D", "I", "S", "P", "L", "A", "Y", "=", "/", "t", "m", "p", "/", ".", "X", "1", "1", "-", "u", "n", "i", "x", "/", "X", "0">>,
       confidence |-> 90,
       network |-> <<>>, files |-> <<[path |-> <<"/", "t", "m", "p", "/", ".", "X", "1", "1", "-", "u", "n", "i", "x">>, permissions |-> {R_OK, W_OK}]>>, env |-> <<[name |-> <<"D", "I", "S", "P", "L", "A", "Y">>, value |-> <<"/", "t", "m", "p", "/", ".", "X", "1", "1", "-", "u", "n", "i", "x", "/", "X", "0">>]>>, limits |-> <<>>],
      [description |-> <<"S", "o", "c", "k", "e", "t", " ", "o", "p", "e", "r", "a", "t", "i", "o", "n", "s", " ", "d", "e", "t", "e", "c", "t", "e", "d">>,
       capability |-> <<"n", "e", "t", "w", "o", "r", "k", ":", " ", "t", "c", "p", ":", "8", "0", "8", "0", ":", "i", "n", "b", "o", "u", "n", "d", " ", " ", "#", " ", "S", "e", "r", "v", "e", "r", " ", "a", "p", "p", "l", "i", "c", "a", "t", "i", "o", "n">>,
       confidence |-> 85,
       network |-> <<[protocol |-> <<"t", "c", "p">>, port |-> 8080, direction |-> Direction.in]>>, files |-> <<>>, env |-> <<>>, limits |-> <<>>],
      [description |-> <<"P", "r", "o", "c", "e", "s", "s", " ", "m", "a", "n", "a", "g", "e", "m", "e", "n", "t", " ", "d", "e", "t", "e", "c", "t", "e", "d">>,
       capability |-> <<"p", "r", "o", "c", "e", "s", "s", "e", "s", ":", " ", "1", "0", " ", " ", "#", " ", "A", "l", "l", "o", "w", " ", "c", "h", "i", "l", "d", " ", "p", "r", "o", "c", "e", "s", "s", "e", "s">>,
       confidence |-> 80,
       network |-> <<>>, files |-> <<>>, env |-> <<>>, limits |-> <<[key |-> "max_processes", value |-> 10]>>],
      [description |-> <<"M", "y", "S", "Q", "L", " ", "d", "a", "t", "a", "b", "a", "s", "e", " ", "s", "e", "r", "v", "e", "r">>,
       capability |-> <<"n", "e", "t", "w", "o", "r", "k", ":", " ", "t", "c", "p", ":", "3", "3", "0", "6", ":", "i", "n", "b", "o", "u", "n", "d", "\n", "f", "i", "l", "e", "s", "y", "s", "t", "e", "m", ":", " ", "/", "v", "a", "r", "/", "l", "i", "b", "/", "m", "y", "s", "q", "l", ":", "r", "w", "\n", "m", "e", "m", "o", "r", "y", ":", " ", "5", "1", "2", "M", "\n", "p", "r", "o", "c", "e", "s", "s", "e", "s", ":", " ", "5", "0">>,
       confidence |-> 90,
       network |-> <<[protocol |-> <<"t", "c", "p">>, port |-> 3306, direction |-> Direction.in]>>, files |-> <<[path |-> <<"/", "v", "a", "r", "/", "l", "i", "b", "/", "m", "y", "s", "q", "l">>, permissions |-> {R_OK, W_OK}]>>, env |-> <<>>, limits |-> <<[key |-> "memory_bytes", value |-> 512 * 1024 * 1024], [key |-> "max_processes", value |-> 50]>>],
      [description |-> <<"M", "i", "n", "i", "m", "a", "l", " ", "c", "a", "p", "a", "b", "i", "l", "i", "t", "i", "e", "s", " ", "f", "o", "r", " ", "u", "n", "k", "n", "o", "w", "n", " ", "a", "p", "p", "l", "i", "c", "a", "t", "i", "o", "n">>,
       capability |-> <<"f", "i", "l", "e", "s", "y", "s", "t", "e", "m", ":", " ", "/", "t", "m", "p", ":", "r", "w">>,
       confidence |-> 50,
       network |-> <<>>, files |-> <<[path |-> <<"/", "t", "m", "p">>, permissions |-> {R_OK, W_OK}]>>, env |-> <<>>, limits |-> <<>>] }

\* struct detection_result: the hints in the order the analyzers found them
DetectionResults == SeqsUpTo(HintChoices, MaxHints)

\* strtok(cap_copy, "\n") and its further calls: the non-empty lines of a
\* capability text
RECURSIVE strtok_newline(_)
strtok_newline(s) ==
    IF \A i \in 1..Len(s) : s[i] = "\n" THEN <<>>
    ELSE LET start == CHOOSE i \in 1..Len(s) :
                          s[i] # "\n" /\ \A j \in 1..(i - 1) : s[j] = "\n"
         IN IF strchr(SubSeq(s, start, Len(s)), "\n") = 0
            THEN <<SubSeq(s, start, Len(s))>>
            ELSE <<SubSeq(s, start, start + strchr(SubSeq(s, start, Len(s)), "\n") - 2)>>
                    \o strtok_newline(SubSeq(s, start + strchr(SubSeq(s, start, Len(s)), "\n"),
                                             Len(s)))

\* the passes of generate_capability_file over the hints
Thresholds == <<90, 80, 70, 60, 50>>

\* what generate_capability_file writes for one hint
hint_lines(hint) ==
    <<<<"#", " ">> \o hint.description>> \o strtok_newline(hint.capability) \o <<<<>>>>

\* fprintf(file, "# Confidence: %d-%d%%\n", conf_threshold, conf_threshold + 9)
section_line(conf_threshold) ==
    <<"#", " ", "C", "o", "n", "f", "i", "d", "e", "n", "c", "e", ":", " ">> \o Dec(conf_threshold) \o <<"-">>
        \o Dec(conf_threshold + 9) \o <<"%">>

\* the two loops of generate_capability_file from pass t and hint i on:
\* the hints it writes, each with the lines written for it (added: the
\* capability texts written so far, section: section_written)
RECURSIVE write_hints(_, _, _, _, _)
write_hints(result, t, i, added, section) ==
    IF t > Len(Thresholds) THEN <<>>
    ELSE IF i > Len(result)
         THEN (IF section THEN <<[hint |-> <<>>, lines |-> <<<<>>>>]>> ELSE <<>>)
                  \o write_hints(result, t + 1, 1, added, FALSE)
    ELSE IF /\ result[i].confidence >= Thresholds[t]
            /\ result[i].confidence < Thresholds[t] + 10
            /\ result[i].capability \notin added
         THEN <<[hint |-> <<result[i]>>,
                 lines |-> (IF section THEN <<>> ELSE <<section_line(Thresholds[t])>>)
                              \o hint_lines(result[i])]>>
                  \o write_hints(result, t, i + 1, added \cup {result[i].capability}, TRUE)
         ELSE write_hints(result, t, i + 1, added, section)

\* the lines of a sequence of blocks, one after the other
RECURSIVE LinesOf(_)
LinesOf(blocks) ==
    IF blocks = <<>> THEN <<>> ELSE Head(blocks).lines \o LinesOf(Tail(blocks))

\* the hints of a sequence of blocks, in the order they were written
RECURSIVE HintsOf(_)
HintsOf(blocks) ==
    IF blocks = <<>> THEN <<>> ELSE Head(blocks).hint \o HintsOf(Tail(blocks))

\* the lines generate_capability_file writes before the hints
FileHead ==
    << <<"#", " ", "A", "u", "t", "o", "-", "g", "e", "n", "e", "r", "a", "t", "e", "d", " ", "c", "a", "p", "a", "b", "i", "l", "i", "t", "y", " ", "f", "i", "l", "e", " ", "f", "o", "r", " ", ".", "/", "a", "p", "p">>,
       <<"#", " ", "G", "e", "n", "e", "r", "a", "t", "e", "d", " ", "o", "n", ":", " ", "2", "0", "2", "6", "-", "0", "1", "-", "0", "1", " ", "0", "0", ":", "0", "0", ":", "0", "0">>,
       <<"#", " ", "R", "e", "v", "i", "e", "w", " ", "a", "n", "d", " ", "m", "o", "d", "i", "f", "y", " ", "c", "a", "p", "a", "b", "i", "l", "i", "t", "i", "e", "s", " ", "a", "s", " ", "n", "e", "e", "d", "e", "d">>,
       <<"#", " ", "R", "e", "m", "o", "v", "e", " ", "o", "r", " ", "c", "o", "m", "m", "e", "n", "t", " ", "o", "u", "t", " ", "u", "n", "n", "e", "c", "e", "s", "s", "a", "r", "y", " ", "c", "a", "p", "a", "b", "i", "l", "i", "t", "i", "e", "s">>,
       <<>>,
       <<"#", " ", "U", "s", "e", "r", " ", "c", "o", "n", "t", "e", "x", "t", " ", "-", " ", "c", "r", "e", "a", "t", "e", "s", " ", "e", "p", "h", "e", "m", "e", "r", "a", "l", " ", "u", "s", "e", "r", " ", "a", "u", "t", "o", "m", "a", "t", "i", "c", "a", "l", "l", "y">>,
       <<"u", "s", "e", "r", ":", " ", "a", "u", "t", "o">>,
       <<>>,
       <<"#", " ", "D", "e", "f", "a", "u", "l", "t", " ", "r", "e", "s", "o", "u", "r", "c", "e", " ", "l", "i", "m", "i", "t", "s", " ", "(", "a", "d", "j", "u", "s", "t", " ", "b", "a", "s", "e", "d", " ", "o", "n", " ", "a", "p", "p", "l", "i", "c", "a", "t", "i", "o", "n", " ", "n", "e", "e", "d", "s", ")">>,
       <<"m", "e", "m", "o", "r", "y", ":", " ", "1", "2", "8", "M", " ", " ", " ", " ", "#", " ", "A", "d", "j", "u", "s", "t", " ", "b", "a", "s", "e", "d", " ", "o", "n", " ", "a", "p", "p", "l", "i", "c", "a", "t", "i", "o", "n", " ", "r", "e", "q", "u", "i", "r", "e", "m", "e", "n", "t", "s">>,
       <<"p", "r", "o", "c", "e", "s", "s", "e", "s", ":", " ", "5", " ", " ", " ", " ", "#", " ", "A", "d", "j", "u", "s", "t", " ", "i", "f", " ", "a", "p", "p", "l", "i", "c", "a", "t", "i", "o", "n", " ", "s", "p", "a", "w", "n", "s", " ", "c", "h", "i", "l", "d", " ", "p", "r", "o", "c", "e", "s", "s", "e", "s">>,
       <<"f", "i", "l", "e", "s", ":", " ", "2", "5", "6", " ", " ", " ", " ", " ", " ", "#", " ", "F", "i", "l", "e", " ", "d", "e", "s", "c", "r", "i", "p", "t", "o", "r", " ", "l", "i", "m", "i", "t">>,
       <<>>,
       <<"#", " ", "D", "e", "t", "e", "c", "t", "e", "d", " ", "c", "a", "p", "a", "b", "i", "l", "i", "t", "i", "e", "s", " ", "(", "s", "o", "r", "t", "e", "d", " ", "b", "y", " ", "c", "o", "n", "f", "i", "d", "e", "n", "c", "e", ")">>,
       <<"#", " ", "H", "i", "g", "h", "e", "r", " ", "c", "o", "n", "f", "i", "d", "e", "n", "c", "e", " ", "s", "u", "g", "g", "e", "s", "t", "i", "o", "n", "s", " ", "a", "r", "e", " ", "l", "i", "s", "t", "e", "d", " ", "f", "i", "r", "s", "t">>,
       <<>> >>

\* the lines generate_capability_file writes behind the hints
FileTail ==
    << <<"#", " ", "A", "d", "d", "i", "t", "i", "o", "n", "a", "l", " ", "c", "a", "p", "a", "b", "i", "l", "i", "t", "y", " ", "e", "x", "a", "m", "p", "l", "e", "s", " ", "(", "c", "o", "m", "m", "e", "n", "t", "e", "d", " ", "o", "u", "t", ")", ":">>,
       <<"#", " ", "n", "e", "t", "w", "o", "r", "k", ":", " ", "u", "d", "p", ":", "5", "3", ":", "o", "u", "t", "b", "o", "u", "n", "d", " ", " ", " ", " ", " ", "#", " ", "D", "N", "S", " ", "q", "u", "e", "r", "i", "e", "s">>,
       <<"#", " ", "f", "i", "l", "e", "s", "y", "s", "t", "e", "m", ":", " ", "/", "h", "o", "m", "e", "/", "u", "s", "e", "r", ":", "r", "w", " ", " ", " ", " ", "#", " ", "U", "s", "e", "r", " ", "h", "o", "m", "e", " ", "d", "i", "r", "e", "c", "t", "o", "r", "y">>,
       <<"#", " ", "e", "n", "v", ":", " ", "P", "A", "T", "H", "=", "/", "u", "s", "r", "/", "b", "i", "n", ":", "/", "b", "i", "n", " ", " ", " ", " ", " ", " ", "#", " ", "C", "u", "s", "t", "o", "m", " ", "e", "n", "v", "i", "r", "o", "n", "m", "e", "n", "t">>,
       <<"#", " ", "c", "p", "u", ":", " ", "5", "0", " ", " ", " ", " ", " ", " ", " ", " ", " ", " ", " ", " ", " ", " ", " ", " ", " ", " ", " ", " ", " ", " ", "#", " ", "C", "P", "U", " ", "l", "i", "m", "i", "t", " ", "(", "p", "e", "r", "c", "e", "n", "t", "a", "g", "e", ")">> >>

\* generate_capability_file(binary, output_file, result): the file written
generate_capability_file(result) ==
    FileHead \o LinesOf(write_hints(result, 1, 1, {}, FALSE)) \o FileTail


\* the documents written by hand
Documents == SeqsUpTo(LineChoices, MaxLines) \cup LongDocuments \cup CommentedDocuments

\* the three rule arrays of a policy
Rules(c) == [network |-> c.network, file |-> c.files, env |-> c.env_vars]

\* the state of load_capabilities after fopen and
\* init_default_capabilities (generated, result: the document is a file the
\* detection tool wrote from that detection result)
ParserStart(doc, generated, result) ==
    [doc |-> doc, generated |-> generated, result |-> result,
     line_num |-> 0,
     caps |-> init_default_parsed, prev |-> init_default_parsed,
     line |-> <<>>, warned |-> FALSE, warnings |-> 0,
     offered |-> Rules(init_default_parsed),
     returned |-> FALSE, ret |-> 0]

\* load_capabilities after fopen and init_default_capabilities, on a
\* document written by hand or on a file the detection tool generated from
\* a detection result
InitParse ==
    /\ \/ \E d \in Documents : parser = ParserStart(d, FALSE, <<>>)
       \/ \E result \in DetectionResults :
             parser = ParserStart(generate_capability_file(result), TRUE, result)
    /\ inv = <<>>
    /\ variant = "orig"
    /\ dry_run = FALSE
    /\ verbose = FALSE
    /\ caps = init_default_capabilities
    /\ loaded = [ret |-> "", warned |-> FALSE]
    /\ env = CallerEnv
    /\ host = [users |-> {"svc"}, root |-> FALSE, mounts |-> <<>>, jails |-> {},
               rctl |-> {}, files |-> [d \in HostDirs |-> {"pre"}]]
    /\ rec = [created_jail_id |-> NoJail, jail_root_path |-> "", ephemeral_username |-> ""]
    /\ proc = [attached |-> FALSE, uid |-> RootUid, gid |-> RootUid, atexit |-> FALSE]
    /\ target = [uid |-> 0, gid |-> 0, username |-> ""]
    /\ pc = "load_capabilities"
    /\ fileIdx = 1
    /\ warnings = 0
    /\ exitCode = -1
    /\ failStep = ""
    /\ rollbacks = 0
    /\ trace = <<>>
    /\ pre = host

MainUnchanged ==
    UNCHANGED <<inv, variant, dry_run, caps, host, rec, proc, target, pc, fileIdx, warnings,
                exitCode, failStep, rollbacks, trace, pre, verbose, loaded, env>>

\* while (fgets(line, sizeof(line), file)): there is a line left to read
fgets_line == ~parser.returned /\ parser.line_num < Len(parser.doc)

\* fgets returns NULL at the end of the document
fgets_eof == ~parser.returned /\ parser.line_num = Len(parser.doc)

\* what a line would add to empty rule arrays: the entry it offers
Offered(c, line) ==
    Rules(apply_line([c EXCEPT !.network = <<>>, !.files = <<>>, !.env_vars = <<>>],
                     line).caps)

\* load_capabilities where a warning ends the loop and returns -1
load_capabilities_fgets_abort ==
    /\ fgets_line
    /\ LET line == parser.doc[parser.line_num + 1]
           r == apply_line(parser.caps, line)
           o == Offered(parser.caps, line)
       IN parser' = [parser EXCEPT
                       !.line_num = @ + 1,
                       !.line = line,
                       !.prev = parser.caps,
                       !.caps = r.caps,
                       !.warned = r.warned,
                       !.warnings = @ + (IF r.warned THEN 1 ELSE 0),
                       !.offered = [k \in DOMAIN @ |-> @[k] \o o[k]],
                       !.returned = r.warned,
                       !.ret = IF r.warned THEN -1 ELSE 0]
    /\ MainUnchanged

\* load_capabilities: fgets returns a line and the loop body handles it
load_capabilities_fgets ==
    /\ fgets_line
    /\ LET line == parser.doc[parser.line_num + 1]
           r == apply_line(parser.caps, line)
           o == Offered(parser.caps, line)
       IN parser' = [parser EXCEPT
                       !.line_num = @ + 1,
                       !.line = line,
                       !.prev = parser.caps,
                       !.caps = r.caps,
                       !.warned = r.warned,
                       !.warnings = @ + (IF r.warned THEN 1 ELSE 0),
                       !.offered = [k \in DOMAIN @ |-> @[k] \o o[k]]]
    /\ MainUnchanged

\* load_capabilities: fgets returns NULL, fclose, return 0
load_capabilities_fclose ==
    /\ fgets_eof
    /\ parser' = [parser EXCEPT !.returned = TRUE, !.ret = 0]
    /\ MainUnchanged

NextParse == load_capabilities_fgets \/ load_capabilities_fclose

SpecParse == InitParse /\ [][NextParse]_vars

\* ================================================================ properties
Positions(op) == { i \in 1..Len(trace) : trace[i].op = op }

Released(k, id) == \E i \in Positions("rel") : trace[i].kind = k /\ trace[i].id = id
Acquired(k, id) == \E i \in Positions("acq") : trace[i].kind = k /\ trace[i].id = id
Stepped(k) == \E i \in Positions("step") : trace[i].kind = k

\* nothing this invocation provisioned is left on the host
NoResidue ==
    /\ EphemeralName \in host.users => EphemeralName \in pre.users
    /\ ~host.root
    /\ host.mounts = <<>>
    /\ JailName \notin host.jails

\* freebsd_create_isolation returned an error
FailedReturn == pc = "done" /\ failStep # ""

\* C1: with user: auto, once provisioning succeeded and the payload has run
\* and exited, the ephemeral principal, the root directory, every mount
\* beneath it and the jail of the invocation no longer exist.
C1_TeardownAfterPayloadExit ==
    (pc = "exited" /\ caps.username = "auto") => NoResidue

\* C2: when freebsd_create_isolation returns an error from any of its steps,
\* no principal, root directory, mount or jail provisioned by the invocation
\* remains on the host.
C2_NoResidueOnFailure ==
    FailedReturn => NoResidue

HostRestored ==
    /\ host.users = pre.users
    /\ host.root = pre.root
    /\ host.mounts = pre.mounts
    /\ host.jails = pre.jails

\* rollback has run after a fully successful provisioning sequence (the exit
\* handler, when execv failed)
RolledBackAfterSuccess == pc = "done" /\ failStep = "" /\ rollbacks = 1

\* C4: when rollback is invoked after a fully successful provisioning
\* sequence, the host's principals, directories, mounts and jails afterwards
\* equal what they were before provisioning started.
C4_RollbackRestoresHost ==
    RolledBackAfterSuccess => HostRestored

\* C5: when the policy sets a workspace and the payload wrote a file under
\* /workspace, then after the payload has exited the file is in the host
\* workspace directory and the workspace mount target is no longer mounted.
C5_WorkspaceRoundTrip ==
    (pc = "exited" /\ caps.workspace_path # "" /\ Stepped("payload_write")) =>
        /\ "out" \in host.files[caps.workspace_path]
        /\ ~IsMounted(host, "/workspace")

\* C6: rollback is idempotent: from every state of the pipeline, a second
\* consecutive call of rollback releases nothing and leaves the record of
\* acquired resources and the host as the first call left them.
C6_RollbackIdempotent ==
    LET once == cleanup_jail(World, HostView(proc))
        twice == cleanup_jail(once, HostView(proc))
    IN /\ twice.trace = once.trace
       /\ twice.rec = once.rec
       /\ twice.host = once.host

\* a first call of rollback releases the jail, a mount, the root directory
\* and the principal
C6_Witness ==
    LET once == cleanup_jail(World, HostView(proc))
    IN /\ pc = "setup_resource_limits"
       /\ Len(once.trace) >= Len(trace) + 4
       /\ once.host # host
       /\ once.rec # rec

ResourceKinds == {"user", "root", "mount", "jail"}

KindRank(k) == CASE k = "jail" -> 1 [] k = "mount" -> 2 [] k = "root" -> 3 [] OTHER -> 4

UmountRank(t) == CHOOSE i \in 1..Len(FixedUmounts) : FixedUmounts[i] = t

C8_OnlyCreatedPrincipalDestroyed ==
    /\ pre.users \subseteq host.users
    /\ \A r \in Positions("rel") :
          trace[r].kind = "user" =>
             \E a \in Positions("acq") :
                a < r /\ trace[a].kind = "user" /\ trace[a].id = trace[r].id
    /\ rec.ephemeral_username \in {"", EphemeralName}

\* the policy names a principal the host does not have, and the run reached
\* the pipeline
MissingNamedPrincipal ==
    /\ caps.username \notin {"auto"} \cup pre.users
    /\ pc \notin {"load_capabilities", "dry_run_check", "privilege_check"}
    /\ ~dry_run /\ proc.uid # Ids.caller

\* C9: with user: <name> where the host has no principal <name>, provisioning
\* fails at principal resolution, before the root directory or any other
\* resource is created, and the process exits with code 1.
C9_MissingNamedPrincipalFailsFirst ==
    MissingNamedPrincipal =>
        /\ ~host.root /\ host.mounts = <<>> /\ JailName \notin host.jails
        /\ pc = "done" => exitCode = 1 /\ failStep = "principal"

\* the caller is not super-user and the run is not a dry run
Unprivileged == proc.uid = Ids.caller /\ ~dry_run

\* C10: the privilege check precedes every host-modifying step: for a caller
\* that is not super-user (outside dry run) the process exits with code 1 and
\* no principal, directory, mount or jail has been created.
C10_PrivilegeCheckFirst ==
    Unprivileged =>
        /\ pc \in {"load_capabilities", "dry_run_check", "privilege_check", "done"}
        /\ pc = "done" => exitCode = 1
        /\ host = pre /\ trace = <<>> /\ RecEmpty(rec)

\* an unprivileged caller was turned away
C10_Witness ==
    Unprivileged /\ pc = "done" /\ exitCode = 1

\* the payload image has been executed
PayloadExecuted == pc \in {"payload", "exited"}

\* C11: whenever the payload image is executed, the uid and gid of the
\* process are the ids the host has for the resolved principal (the ephemeral
\* principal, or the named one); in the plan listing they are the ids
\* captured at principal resolution.
C11_PayloadCredentials ==
    PayloadExecuted =>
        /\ target.username = IF caps.username = "auto" THEN EphemeralName ELSE caps.username
        /\ proc.uid = PrincipalId(target.username)
        /\ proc.gid = PrincipalGid(target.username)
        /\ variant = "plan" => (proc.uid = target.uid /\ proc.gid = target.gid)

\* the payload runs as the named principal svc
C11_Witness ==
    pc = "payload" /\ caps.username = "svc" /\ proc.uid = Ids.svc /\ proc.gid = Ids.svc + 1

\* C12: the credential switch is atomic: after it returns either both the gid
\* and the uid are the target ids, or neither has changed (the process is
\* still uid 0, gid 0).
C12_CredentialSwitchAtomic ==
    /\ (pc = "done" /\ failStep = "switch_to_user") =>
          (proc.uid = RootUid /\ proc.gid = RootUid)
    /\ Stepped("drop") =>
          (proc.uid = PrincipalId(target.username) /\ proc.gid = PrincipalGid(target.username))

\* the environment a policy asks for: USER, HOME and the library search path
\* at their defaults, then the env rules in order
DefaultTriplet ==
    ("USER" :> target.username) @@ ("HOME" :> "/tmp")
        @@ ("LD_LIBRARY_PATH" :> "/usr/local/lib:/usr/lib:/lib")

RECURSIVE WithRules(_, _, _)
WithRules(e, rules, i) ==
    IF i > Len(rules) THEN e
    ELSE WithRules([x \in (DOMAIN e) \cup {rules[i].name} |->
                       IF x = rules[i].name THEN rules[i].value ELSE e[x]],
                   rules, i + 1)

\* C13: with env_clear=true the environment the payload starts with is
\* exactly the env rules together with the default triplet (a default
\* replaced by a rule of the same name): nothing inherited from the caller.
C13_ClearedEnvironmentExact ==
    (PayloadExecuted /\ caps.env_clear) =>
        env = WithRules(DefaultTriplet, caps.env_vars, 1)

\* C14: for every policy each env rule is in the payload's starting
\* environment, and USER, HOME and the library search path have their
\* defaults unless a rule of the same name overrides them.
C14_EnvRulesAndDefaultsPresent ==
    PayloadExecuted =>
        LET want == WithRules(DefaultTriplet, caps.env_vars, 1)
        IN \A n \in DOMAIN want : n \in DOMAIN env /\ env[n] = want[n]

\* C15: a SIGTERM, SIGINT or SIGHUP that arrives during provisioning, after
\* a resource was acquired, aborts the invocation and rollback runs: no
\* acquired resource remains on the host.
C15_SignalAbortRollsBack ==
    (pc = "killed" /\ Positions("acq") # {}) => (rollbacks = 1 /\ NoResidue)

\* provisioning succeeded and execv of the payload failed
ExecFailed == pc = "done" /\ failStep = "" /\ Stepped("drop")

\* C16: if replacing the process image fails after provisioning succeeded,
\* the exit handler calls rollback (once, leaving the record empty) and the
\* process exits with a non-zero status.
C16_ExecFailureRollsBackNonZero ==
    ExecFailed => (rollbacks = 1 /\ RecEmpty(rec) /\ exitCode > 0)

\* execv failed after a successful provisioning
C16_Witness ==
    ExecFailed /\ Acquired("jail", JailName) /\ exitCode = 1

\* C17: two invocations alive at the same time never share a jail name, an
\* ephemeral principal name, a root directory or a mount point, and no mount
\* point of one is the root directory of the other.
C17_NamesDoNotCollide ==
    \A i, j \in DOMAIN inv :
        (i # j /\ inv[i].derived /\ inv[j].derived) =>
            /\ inv[i].jail_name # inv[j].jail_name
            /\ inv[i].ephemeral_username # inv[j].ephemeral_username
            /\ inv[i].jail_root_path # inv[j].jail_root_path
            /\ inv[i].mount_points \cap inv[j].mount_points = {}
            /\ inv[i].jail_root_path \notin inv[j].mount_points

\* both invocations have derived their names, the pid of one being a prefix
\* of the pid of the other
C17_Witness ==
    /\ DOMAIN inv = Invocations
    /\ inv[1].derived /\ inv[2].derived
    /\ inv[1].pid = 1 /\ inv[2].pid = 11
    /\ inv[2].jail_name = <<"i", "s", "o", "l", "a", "t", "e", "-", "1", "1">>

\* C18: in dry-run mode no provisioning step is performed (nothing is
\* created on the host, the process keeps its credentials and environment,
\* the payload is not executed) and the process exits 0, for every policy
\* and whether or not the caller is privileged.
C18_DryRunProvisionsNothing ==
    dry_run =>
        /\ pc \in {"load_capabilities", "dry_run_check", "done"}
        /\ pc = "done" => exitCode = 0
        /\ host = pre /\ trace = <<>> /\ RecEmpty(rec)
        /\ ~proc.attached /\ ~proc.atexit /\ proc.uid = proc.gid
        /\ env = CallerEnv

\* a dry run of an unprivileged caller ended
C18_Witness ==
    dry_run /\ pc = "done" /\ exitCode = 0 /\ proc.uid = Ids.caller /\ loaded.ret = "ok"

\* the policy document does not exist
DocumentMissing == loaded.ret = "ENOENT"

\* the run goes on under the default policy: principal auto, both
\* default-deny flags false, env_clear false, every limit 0, no rule; it is
\* not ended by the load, and the privilege check still applies
ProceedsUnderDefaultPolicy ==
    /\ caps = [ username |-> "auto", workspace_path |-> "", files |-> <<>>,
                limits |-> [memory_bytes |-> 0, max_processes |-> 0, max_files |-> 0,
                            max_cpu_percent |-> 0],
                network |-> <<>>, network_default_deny |-> FALSE,
                fs_default_deny |-> FALSE, env_vars |-> <<>>, env_clear |-> FALSE ]
    /\ create_user(caps)
    /\ pc # "load_capabilities"
    /\ (pc = "done" /\ ~dry_run /\ proc.uid = RootUid) => (failStep # "" \/ trace # <<>>)
    /\ Unprivileged =>
          (pc \in {"dry_run_check", "privilege_check", "done"} /\ host = pre /\ trace = <<>>)

\* C19 (as claimed): when the policy document does not exist a warning is
\* emitted and the run proceeds, still subject to the privilege check, under
\* the default policy.
C19_MissingDocumentWarnsAndDefaults ==
    DocumentMissing => (loaded.warned /\ ProceedsUnderDefaultPolicy)

\* C19 (amended): when the policy document does not exist the run proceeds,
\* still subject to the privilege check, under the default policy; the
\* warning is emitted only when -v is given.
C19_MissingDocumentDefaults ==
    DocumentMissing => ((loaded.warned <=> verbose) /\ ProceedsUnderDefaultPolicy)

\* a privileged run without -v and without a policy document reached the
\* pipeline and created the ephemeral principal
C19_Witness ==
    DocumentMissing /\ ~verbose /\ ~loaded.warned /\ Acquired("user", EphemeralName)

\* the nullfs mounts of host paths beneath the root, as (target, source,
\* option) records
BindMounts ==
    { host.mounts[i] : i \in { j \in 1..Len(host.mounts) : host.mounts[j].opts \in {"ro", "rw"} } }

\* the bind mounts the policy declares
DeclaredMounts ==
    { Mount(caps.files[i].path, caps.files[i].path,
            IF W_OK \in caps.files[i].permissions THEN "rw" ELSE "ro") :
        i \in { j \in 1..Len(caps.files) :
                  /\ R_OK \in caps.files[j].permissions
                  /\ HostPathKind(caps.files[j].path) = "dir" } }
    \cup (IF caps.workspace_path # ""
          THEN {Mount("/workspace", caps.workspace_path, "rw")} ELSE {})

\* setup_filesystem_isolation has returned and no mount command failed
FilesystemSetUp ==
    /\ pc \in {"create_jail", "setup_resource_limits", "attach_to_jail", "switch_to_user",
               "execv", "payload", "exited"}
    /\ warnings = 0

\* C20: the host paths bind-mounted into the private root are exactly the
\* file rules whose path exists, is a directory and whose perms include R
\* (read-only without W, read-write with it), plus the workspace if set.
C20_ExactlyDeclaredPathsMounted ==
    FilesystemSetUp => BindMounts = DeclaredMounts

\* the accounting rules the policy's non-zero limits call for
LimitRules ==
    { r \in { [metric |-> "memoryuse", value |-> caps.limits.memory_bytes],
              [metric |-> "maxproc", value |-> caps.limits.max_processes],
              [metric |-> "openfiles", value |-> caps.limits.max_files],
              [metric |-> "pcpu", value |-> caps.limits.max_cpu_percent] } :
        r.value > 0 }

\* C21: for each of the four limits (memory, processes, open files, cpu
\* percent) that is non-zero a rule for that metric and value is added for
\* the jail, after the jail is created and before the process attaches.
C21_RuleForEveryNonZeroLimit ==
    /\ (pc \in {"attach_to_jail", "switch_to_user", "execv", "payload", "exited"}
           /\ warnings = 0) =>
          LimitRules \subseteq host.rctl
    /\ \A r \in Positions("acq") :
          trace[r].kind = "rctl" =>
             /\ \E j \in Positions("acq") : j < r /\ trace[j].kind = "jail"
             /\ \A a \in Positions("step") : trace[a].kind = "attach" => r < a

\* ------------------------------------------------- properties of the parser
\* a line load_capabilities warns about and skips: no colon, an unknown key
\* or a value its rule parser rejects
IllFormed(line) == apply_line(init_default_parsed, line).warned

WellFormed(line) == ~IllFormed(line)

\* the policy that the lines build one after the other, starting from c
RECURSIVE Replay(_, _)
Replay(c, lines) ==
    IF lines = <<>> THEN c ELSE Replay(apply_line(c, Head(lines)).caps, Tail(lines))

\* the lines read so far
LinesRead == SubSeq(parser.doc, 1, parser.line_num)

\* C22: parsing terminates on every document and returns a policy: the
\* loop reads one line per step and never more lines than the document has,
\* it can always read on or return until it has returned, and it returns 0 only after the last
\* line was read, whatever the lines were (no line aborts it).  The policy
\* is the one the well-formed lines alone build: every well-formed line
\* behind an ill-formed one takes effect.
C22_ParsingTerminatesAndSkipsBadLines ==
    /\ parser.line_num <= Len(parser.doc)
    /\ ~parser.returned => fgets_line \/ fgets_eof
    /\ parser.returned => parser.ret = 0 /\ parser.line_num = Len(parser.doc)
    /\ parser.caps = Replay(init_default_parsed, SelectSeq(LinesRead, WellFormed))

C22_Witness ==
    /\ parser.returned
    /\ Len(parser.doc) = 2
    /\ IllFormed(parser.doc[1])
    /\ WellFormed(parser.doc[2])
    /\ parser.warnings = 1
    /\ parser.caps # init_default_parsed

\* the last line read, split as the loop body splits it
LastKey == parse_key_value(trim_whitespace(parser.line)).key

LastValue == parse_key_value(trim_whitespace(parser.line)).value

\* a line with this key was the last one read
LastLineHasKey(key) == parser.line_num > 0 /\ LastKey = key

\* lines whose value is malformed
MalformedValueLines ==
    { <<"m", "e", "m", "o", "r", "y", ":", " ", "b", "a", "n", "a", "n", "a">>, <<"p", "r", "o", "c", "e", "s", "s", "e", "s", ":", " ", "a", "b", "c">>, <<"e", "n", "v", ":", " ", "N", "O", "E", "Q", "U", "A", "L", "S">> }

\* C23: a line whose value is malformed (memory: banana, processes: abc,
\* env: NOEQUALS) emits a warning and is skipped: the policy after the line
\* is the policy before it, so an earlier value of the same key is kept.
C23_MalformedValueWarnedAndSkipped ==
    (parser.line_num > 0 /\ parser.line \in MalformedValueLines) =>
        parser.warned /\ parser.caps = parser.prev

\* the text behind the last colon of s (all of s without a colon)
RECURSIVE FinalField(_)
FinalField(s) ==
    IF strchr(s, ":") = 0 THEN s ELSE FinalField(SubSeq(s, strchr(s, ":") + 1, Len(s)))

\* the direction the final field of a network entry stands for
DirectionOf(field) ==
    IF field \in {<<"i", "n">>, <<"i", "n", "b", "o", "u", "n", "d">>} THEN Direction.in
    ELSE IF field \in {<<"o", "u", "t">>, <<"o", "u", "t", "b", "o", "u", "n", "d">>} THEN Direction.out
    ELSE Direction.both

\* the last line read was a network entry and a rule was stored for it
NetworkRuleStored ==
    /\ LastLineHasKey(<<"n", "e", "t", "w", "o", "r", "k">>)
    /\ Len(parser.caps.network) = Len(parser.prev.network) + 1

\* C24: the final colon field of a network entry gives the direction: in or
\* inbound is In, out or outbound is Out, anything else (or no such field)
\* is Both, in the port form (udp:53:outbound) and in the address form
\* (tcp:192.168.1.1:80:in) alike.
C24_FinalFieldGivesDirection ==
    NetworkRuleStored =>
        parser.caps.network[Len(parser.caps.network)].direction
            = DirectionOf(FinalField(LastValue))

Protocols == { <<"t", "c", "p">>, <<"u", "d", "p">>, <<"u", "n", "i", "x">>, <<"n", "o", "n", "e">> }

\* the port value that stands for any port
AnyPort == [port |-> -1]

\* C25: every stored network rule has a protocol among tcp, udp, unix and
\* none and a port that is in 1..65535 or ANY; a unix rule always has ANY.
C25_NetworkRulesWellFormed ==
    \A i \in 1..Len(parser.caps.network) :
        LET r == parser.caps.network[i]
        IN /\ r.protocol \in Protocols
           /\ r.port \in 1..65535 \/ r.port = AnyPort.port
           /\ r.protocol = <<"u", "n", "i", "x">> => r.port = AnyPort.port

\* the size of a page of the system
System == [page_size |-> 4096]

\* C26: the limits on processes, open files and cpu percent are never
\* negative, and the memory limit is 0 or at least one system page.
C26_LimitsInRange ==
    LET l == parser.caps.limits
    IN /\ l.max_processes >= 0
       /\ l.max_files >= 0
       /\ l.max_cpu_percent >= 0
       /\ l.memory_bytes = 0 \/ l.memory_bytes >= System.page_size

\* the components of a path: the text between its slashes
RECURSIVE Components(_)
Components(p) ==
    IF strchr(p, "/") = 0 THEN <<p>>
    ELSE <<SubSeq(p, 1, strchr(p, "/") - 1)>>
             \o Components(SubSeq(p, strchr(p, "/") + 1, Len(p)))

\* an absolute path without ., .., an empty component or a final slash
\* (the root alone is canonical)
Canonical(p) ==
    /\ p # <<>> /\ p[1] = "/"
    /\ \/ p = <<"/">>
       \/ \A i \in 2..Len(Components(p)) :
             Components(p)[i] \notin { <<>>, <<".">>, <<".", ".">> }

\* C27: the path of every stored file rule is absolute and canonical.
C27_FilePathsCanonical ==
    \A i \in 1..Len(parser.caps.files) : Canonical(parser.caps.files[i].path)

\* the first n elements of a sequence
FirstN(s, n) == SubSeq(s, 1, IF Len(s) < n THEN Len(s) ELSE n)

\* the key of a rule entry of each kind
KindOfKey(key) ==
    CASE key = <<"n", "e", "t", "w", "o", "r", "k">> -> "network"
      [] key \in { <<"f", "i", "l", "e">>, <<"f", "i", "l", "e", "s", "y", "s", "t", "e", "m">> } -> "file"
      [] key = <<"e", "n", "v">> -> "env"
      [] OTHER -> ""

\* the last line read was an entry of a kind whose array was full already
EntryBeyondCap ==
    /\ parser.line_num > 0
    /\ KindOfKey(LastKey) # ""
    /\ Len(Rules(parser.prev)[KindOfKey(LastKey)]) = MaxRules[KindOfKey(LastKey)]

\* C28: a policy holds at most 16 network, 32 file and 32 env rules; the
\* rules kept are the first accepted ones in document order; an entry beyond
\* the cap is warned about and discarded and leaves the stored rules alone.
C28_CapsKeepFirstAndWarn ==
    /\ \A k \in DOMAIN MaxRules :
          Rules(parser.caps)[k] = FirstN(parser.offered[k], MaxRules[k])
    /\ EntryBeyondCap => parser.warned /\ parser.caps = parser.prev

\* C29: a line `workspace: <absolute path>` sets workspace_path to that
\* path (which provisioning binds at /workspace).
C29_WorkspaceKeySetsPath ==
    (LastLineHasKey(<<"w", "o", "r", "k", "s", "p", "a", "c", "e">>) /\ LastValue # <<>> /\ LastValue[1] = "/") =>
        parser.caps.workspace_path = LastValue

\* the multiplier a suffix stands for, 0 for a suffix that is rejected
SuffixMultiplier(suffix) ==
    CASE suffix \in { <<>>, <<"B">>, <<"b">> } -> 1
      [] suffix \in { <<"K">>, <<"k">> } -> 1024
      [] suffix \in { <<"M">>, <<"m">> } -> 1024 * 1024
      [] suffix \in { <<"G">>, <<"g">> } -> 1024 * 1024 * 1024
      [] OTHER -> 0

\* the last line read was `memory: N<suffix>` with a decimal number N
MemoryLineWithNumber == LastLineHasKey(<<"m", "e", "m", "o", "r", "y">>) /\ DigitRun(LastValue, 1) > 0

\* C30: a memory value N with suffix none or B is N bytes, with K N*1024,
\* with M N*1024*1024, with G N*1024*1024*1024, in either case of the
\* letter; with any other suffix the line is rejected and memory_bytes
\* stays as it was.
C30_MemorySuffixes ==
    MemoryLineWithNumber =>
        LET n == DigitRun(LastValue, 1)
            N == DigitsValue(LastValue, 1, n)
            suffix == SubSeq(LastValue, n + 1, Len(LastValue))
        IN IF SuffixMultiplier(suffix) # 0
           THEN parser.caps.limits.memory_bytes = N * SuffixMultiplier(suffix)
           ELSE /\ parser.warned
                /\ parser.caps.limits.memory_bytes = parser.prev.limits.memory_bytes

\* C31: text from a # to the end of the line is a comment and not part of
\* the value: for every recognized key the line `key: value # note` gives
\* the policy that the line `key: value` gives.
C31_CommentNotPartOfValue ==
    \A l \in KeyLines :
        (parser.returned /\ parser.doc = <<l \o Note>>) =>
            parser.caps = apply_line(init_default_parsed, l).caps

\* the hints written into the generated file, in the order of the file
WrittenHints == HintsOf(write_hints(parser.result, 1, 1, {}, FALSE))

\* the entries of one kind that a sequence of hints stands for
RECURSIVE Entries(_, _)
Entries(hints, kind) ==
    IF hints = <<>> THEN <<>> ELSE Head(hints)[kind] \o Entries(Tail(hints), kind)

\* the limits after the limit entries are applied in order
RECURSIVE LimitsAfter(_, _)
LimitsAfter(limits, entries) ==
    IF entries = <<>> THEN limits
    ELSE LimitsAfter([limits EXCEPT ![Head(entries).key] = Head(entries).value],
                     Tail(entries))

\* the limits the detection tool writes in front of the hints
WrittenDefaults ==
    [memory_bytes |-> 128 * 1024 * 1024, max_processes |-> 5, max_files |-> 256,
     max_cpu_percent |-> 0]

\* protocol, port and direction of the stored network rules
StoredNetwork ==
    [i \in 1..Len(parser.caps.network) |->
        [protocol |-> parser.caps.network[i].protocol,
         port |-> parser.caps.network[i].port,
         direction |-> parser.caps.network[i].direction]]

\* C32: re-parsing a file the detection tool generated gives a policy whose
\* fields are what the tool wrote: user auto, the memory, processes and files
\* limits, protocol, port and direction of every network rule, every
\* filesystem rule and every env pair, also for lines with a comment behind
\* the value.
C32_DetectorRoundTrip ==
    (parser.returned /\ parser.generated) =>
        /\ parser.caps.username = <<"a", "u", "t", "o">>
        /\ parser.caps.create_user
        /\ parser.caps.limits = LimitsAfter(WrittenDefaults, Entries(WrittenHints, "limits"))
        /\ StoredNetwork = Entries(WrittenHints, "network")
        /\ parser.caps.files = Entries(WrittenHints, "files")
        /\ parser.caps.env_vars = Entries(WrittenHints, "env")

\* ------------------------------------------- properties of the orchestrator
\* every step of kind k in the history has a step of kind before in front
StepOnlyAfter(k, before) ==
    \A i \in Positions("step") :
        trace[i].kind = k =>
            \E j \in Positions("step") : j < i /\ trace[j].kind = before

\* C33: the phases occur only in the order Idle, Provisioning, Attached,
\* Dropped, HandedOff: the process attaches only to a jail it has created,
\* drops its credentials only after a successful attach, executes the
\* payload only after a successful credential drop, and never executes the
\* payload once rollback has run.
C33_PhasesInOrder ==
    /\ \A a \in Positions("step") :
          trace[a].kind = "attach" =>
              \E j \in Positions("acq") : j < a /\ trace[j].kind = "jail"
    /\ proc.attached => Stepped("attach")
    /\ StepOnlyAfter("drop", "attach")
    /\ StepOnlyAfter("exec", "drop")
    /\ pc \in {"payload", "exited"} => Stepped("exec")
    /\ rollbacks > 0 => ~Stepped("exec") /\ pc \notin {"payload", "exited"}

C33_Witness ==
    /\ pc = "exited"
    /\ Stepped("attach") /\ Stepped("drop") /\ Stepped("exec")
    /\ proc.attached /\ proc.uid # RootUid
    /\ rollbacks = 0

\* the place of an entry of the history in the contractual order of
\* provisioning (0: the order says nothing about it): 1 principal, 2 root
\* directory, skeleton, binary and stubs, 3 workspace mount, 4 device
\* mount, 5 file-rule mounts, 6 jail, 7 accounting, 8 attach, 9 credential
\* drop
Place(e) ==
    CASE e.op = "acq" /\ e.kind = "user" -> 1
      [] e.op = "acq" /\ e.kind = "root" -> 2
      [] e.op = "step" /\ e.kind \in {"skeleton", "copy_binary"} -> 2
      [] e.op = "acq" /\ e.kind = "mount" /\ e.id = "/workspace" -> 3
      [] e.op = "acq" /\ e.kind = "mount" /\ e.id = "/dev" -> 4
      [] e.op = "acq" /\ e.kind = "mount" /\ e.id \notin {"/workspace", "/dev"}
            /\ variant = "plan" -> 5
      [] e.op = "acq" /\ e.kind = "jail" -> 6
      [] e.op = "acq" /\ e.kind = "rctl" -> 7
      [] e.op = "step" /\ e.kind = "attach" -> 8
      [] e.op = "step" /\ e.kind = "drop" -> 9
      [] OTHER -> 0

\* C34: provisioning performs its steps in the contractual order: principal;
\* root directory, skeleton, copy of the target binary and stubs; workspace
\* mount; device mount; file-rule mounts; jail, accounting, attach and
\* credential drop.  In particular the workspace is mounted only after the
\* target binary was copied.
C34_ContractualOrder ==
    \A i, j \in 1..Len(trace) :
        (i < j /\ Place(trace[i]) # 0 /\ Place(trace[j]) # 0) =>
            Place(trace[i]) <= Place(trace[j])

\* C35: if the workspace bind mount fails, provisioning aborts: rollback
\* runs, the error is returned to the launcher, the process ends with a
\* non-zero status and the payload is never executed.
C35_WorkspaceMountFailureIsFatal ==
    failStep = "workspace" =>
        /\ rollbacks = 1
        /\ pc = "done"
        /\ exitCode # 0 /\ exitCode # -1
        /\ ~Stepped("exec")
        /\ ~IsMounted(host, "/workspace")

C35_Witness ==
    /\ failStep = "workspace"
    /\ caps.workspace_path # ""
    /\ pc = "done"
    /\ rollbacks = 1

\* C36: a failure to mount the device filesystem and a failure to add an
\* accounting rule never abort provisioning: whatever their outcome, the
\* device mount is followed by the file-rule mounts or the jail creation and
\* the accounting step by the attach (unless a signal ends the process),
\* and no failing return is due to them.
C36_DevfsAndAccountingFailuresNotFatal ==
    [][ /\ pc = "fs_devfs" => pc' \in {"fs_file_rules", "create_jail", "killed"}
        /\ pc = "setup_resource_limits" => pc' \in {"attach_to_jail", "killed"}
        /\ failStep' \notin {"devfs", "setup_resource_limits"} ]_vars

\* the device mount failed, the steps behind it succeeded and the payload
\* was executed
C36_Witness ==
    /\ pc = "exited"
    /\ Stepped("exec")
    /\ warnings = 1
    /\ ~Acquired("mount", "/dev")

\* C37: a root directory is never removed recursively while a bind mount of
\* a host path (the workspace or a file rule) is still mounted beneath it,
\* so every file that was under a host path before the launcher ran is still
\* there whatever the launcher did.
C37_HostFilesNeverDeleted ==
    \A d \in HostDirs : pre.files[d] \subseteq host.files[d]

\* C38: whenever rollback has cleared its record of a resource (the jail
\* id, the root path, the name of the ephemeral principal), that resource
\* has been released on the host: the jail is gone, the root directory is
\* gone, and no principal the launcher created is left.
C38_ClearedRecordMeansReleased ==
    rollbacks >= 1 =>
        /\ rec.created_jail_id = NoJail => JailName \notin host.jails
        /\ rec.jail_root_path = "" => ~host.root
        /\ rec.ephemeral_username = "" => host.users \subseteq pre.users

\* C39: for every policy, the environment the payload starts with does not
\* contain ISOLATE_TARGET_BINARY, the variable the front end uses to hand
\* the target path to the back end.
C39_TargetVariableNotInherited ==
    Stepped("exec") => "ISOLATE_TARGET_BINARY" \notin DOMAIN env

====
